---- MODULE Spec2Model ----
(***************************************************************************)
(* Shared-world state engine of TamingTrees (server side): the grid plot   *)
(* allocator, the tree growth function, and the load -> mutate -> persist  *)
(* request handlers over a plain get/set key-value store.                  *)
(*                                                                         *)
(* The specifications of this module:                                      *)
(*   SpecAlloc     arbitrary sequences of claimPlot / findAvailablePlot    *)
(*   SpecGrowth    calculateTreeGrowth queried as the clock advances       *)
(*   SpecAch       checkAchievements evaluated as the handlers do          *)
(*   SpecNear      getNearbyPlayers called on a growing roster             *)
(*   SpecChat      the chat buffer and its two endpoints, two requests may *)
(*                 overlap                                                 *)
(*   SpecRich      as Spec, started from a world whose player owns several *)
(*                 plots                                                   *)
(*   Spec          the request handlers, one request at a time             *)
(*   SpecConc      the request handlers, two requests may overlap; a       *)
(*                 request is suspended only at its store calls            *)
(*   SpecLate      as Spec, started from a world with a full plot          *)
(*   SpecLateConc  as SpecConc, started from a world with a plot that is   *)
(*                 full or one tree short of full                          *)
(*   SpecHarvest   as Spec, over a store that holds a mature tree          *)
(*   SpecRestart   as Spec, the process may be restarted                   *)
(*   SpecFail      as Spec, a save that follows another save may fail      *)
(*   SpecNearby    as Spec, with GET /api/nearby-players                   *)
(*   SpecSigned    as Spec, buy-seeds with zero and negative quantities    *)
(*   SpecRandom    allocateStartingLand of the earlier server              *)
(*                 (src/src/server/index.ts)                               *)
(***************************************************************************)
EXTENDS Integers, Sequences, FiniteSets, TLC

VARIABLES
  claimedPlots,    \* const claimedPlots = new Set<string>()
  allocLog,        \* SpecAlloc: the allocator calls made so far, with results
  gTree,           \* SpecGrowth: the tree's timestamps
  gNow,            \* SpecGrowth: Date.now()
  gObs,            \* SpecGrowth: the last two results of calculateTreeGrowth
  aPlayer,         \* SpecAch: the player whose achievements are evaluated
  aNow,            \* SpecAch: Date.now()
  aLast,           \* SpecAch: the last evaluation, with its input and results
  nPlayer,         \* SpecNear: the player whose neighbours are asked for
  nRoster,         \* SpecNear: biome.players
  nearCall,        \* SpecNear: the last call of getNearbyPlayers, with its result
  chatMessages,    \* let chatMessages: ChatMessage[] = []
  chatSent,        \* every message addChatMessage accepted, oldest first
  chatRead,        \* the last call of getRecentChatMessages, with its result
  rBiome,          \* SpecRandom: biome.landPlots of the earlier server
  rLast,           \* SpecRandom: the last call of its allocateStartingLand
  storePlayer,     \* redis key player:<id>
  storeBiome,      \* redis key biome:massive_world
  storeGameState,  \* redis key gameState:<id>
  now,             \* Date.now() seen by the handlers
  nextId,          \* source of the generated ids (land_..., tree_...)
  inflight,        \* requests accepted and not yet answered
  resp,            \* the last response sent
  started,         \* number of requests accepted so far
  maxInflight,     \* how many requests may be in flight at once (fixed by Init)
  budget           \* how many requests a behaviour accepts (fixed by Init)

allocVars  == <<allocLog>>
growthVars == <<gTree, gNow, gObs>>
achVars    == <<aPlayer, aNow, aLast>>
nearVars   == <<nPlayer, nRoster, nearCall>>
chatVars   == <<chatMessages, chatSent, chatRead>>
randVars   == <<rBiome, rLast>>
worldVars  == <<storePlayer, storeBiome, storeGameState, now, nextId,
                inflight, resp, started, maxInflight, budget>>
vars == <<claimedPlots, allocLog, gTree, gNow, gObs, aPlayer, aNow, aLast,
          nPlayer, nRoster, nearCall, chatMessages, chatSent, chatRead,
          rBiome, rLast,
          storePlayer, storeBiome,
          storeGameState, now, nextId, inflight, resp, started, maxInflight,
          budget>>

(***************************************************************************)
(* Bounds of the model                                                     *)
(***************************************************************************)
GridCols == 2         \* the world is GridCols plots wide (200 in the source)
GridRows == 2         \* the world is GridRows plots tall (200 in the source)
PlayerCap == 2        \* value of MAX_PLAYERS (200 in the source)
NumPlayers == 3       \* usernames 1..NumPlayers
MaxCalls == 4         \* SpecAlloc: allocator calls per behaviour
MaxGrowthSteps == 16  \* SpecGrowth: clock range, in steps of GrowthStepMs
MaxTicks == 1         \* Spec/SpecConc: clock range, in steps of TickMs
MaxRequests == 3      \* Spec: requests per behaviour
MaxConcRequests == 2  \* SpecConc: requests per behaviour
MaxLateRequests == 2  \* SpecLate/SpecLateConc: requests per behaviour
IdleHours == 5        \* SpecLate/SpecLateConc: hours the server may have idled
MaxAchTime == 1       \* SpecAch: clock range
MaxRoster == 2        \* SpecNear: players on the roster
MaxChatRequests == 3  \* SpecChat: requests per behaviour
AttemptCap == 2       \* SpecRandom: placement attempts (100 in the source)
RandomSpan == 1       \* SpecRandom: draws range over -RandomSpan .. RandomSpan - 1
                      \* grid steps (20 in the source)

(***************************************************************************)
(* World and game configuration                                            *)
(***************************************************************************)
PLOT_WIDTH == 10
PLOT_HEIGHT == 20
WORLD_WIDTH == GridCols * PLOT_WIDTH
WORLD_HEIGHT == GridRows * PLOT_HEIGHT
MAX_PLAYERS == PlayerCap
GRID_WIDTH == WORLD_WIDTH \div PLOT_WIDTH
GRID_HEIGHT == WORLD_HEIGHT \div PLOT_HEIGHT
GROWTH_TIME == 30000
MAX_GROWTH_STAGE == 5
WATERED_WINDOW == 60000
MAX_TREES_PER_PLOT == 5
SEED_COST == 10
LAND_PLOT_COST == 100
START_COINS == 200
START_SEEDS == 5
START_WATER == 10

Null == [null |-> TRUE]

Usernames == 1 .. NumPlayers
Cells == (0 .. GRID_WIDTH - 1) \X (0 .. GRID_HEIGHT - 1)

Abs(n) == IF n < 0 THEN -n ELSE n
Min(a, b) == IF a <= b THEN a ELSE b

(***************************************************************************)
(* Grid allocation system                                                  *)
(***************************************************************************)
\* plotKey = `${gridX},${gridZ}`: one string per integer pair, kept as the pair.
plotKey(gridX, gridZ) == <<gridX, gridZ>>

RECURSIVE ScanFrom(_, _, _)
ScanFrom(claimed, gridX, gridZ) ==
  IF gridX >= GRID_WIDTH THEN Null
  ELSE IF gridZ >= GRID_HEIGHT THEN ScanFrom(claimed, gridX + 1, 0)
  ELSE IF plotKey(gridX, gridZ) \notin claimed
       THEN [gridX |-> gridX, gridZ |-> gridZ]
       ELSE ScanFrom(claimed, gridX, gridZ + 1)

RECURSIVE ScanFromZOuter(_, _, _)
ScanFromZOuter(claimed, gridX, gridZ) ==
  IF gridZ >= GRID_HEIGHT THEN Null
  ELSE IF gridX >= GRID_WIDTH THEN ScanFromZOuter(claimed, 0, gridZ + 1)
  ELSE IF plotKey(gridX, gridZ) \notin claimed
       THEN [gridX |-> gridX, gridZ |-> gridZ]
       ELSE ScanFromZOuter(claimed, gridX + 1, gridZ)

\* Mutant: the two loops nested the other way round.
findAvailablePlot_ZOuter(claimed) == ScanFromZOuter(claimed, 0, 0)

\* Mutant: the scan does not look at the claimed set.
findAvailablePlot_Blind(claimed) == [gridX |-> 0, gridZ |-> 0]

findAvailablePlot(claimed) == ScanFrom(claimed, 0, 0)

\* Mutant: the size test dropped.
claimPlot_NoCap(claimed, gridX, gridZ) ==
  IF plotKey(gridX, gridZ) \in claimed
  THEN [ok |-> FALSE, claimed |-> claimed]
  ELSE [ok |-> TRUE, claimed |-> claimed \cup {plotKey(gridX, gridZ)}]

\* Mutant: the already-claimed test dropped.
claimPlot_NoHasCheck(claimed, gridX, gridZ) ==
  IF Cardinality(claimed) >= MAX_PLAYERS
  THEN [ok |-> FALSE, claimed |-> claimed]
  ELSE [ok |-> TRUE, claimed |-> claimed \cup {plotKey(gridX, gridZ)}]

\* The boolean returned and the set afterwards.
claimPlot(claimed, gridX, gridZ) ==
  IF plotKey(gridX, gridZ) \in claimed
  THEN [ok |-> FALSE, claimed |-> claimed]
  ELSE IF Cardinality(claimed) >= MAX_PLAYERS
  THEN [ok |-> FALSE, claimed |-> claimed]
  ELSE [ok |-> TRUE, claimed |-> claimed \cup {plotKey(gridX, gridZ)}]

\* Mutant: the cells are stepped by half a plot.
getPlotWorldCoordinates_HalfStep(gridX, gridZ) ==
  LET startX == gridX * (PLOT_WIDTH \div 2) - WORLD_WIDTH \div 2
      startZ == gridZ * (PLOT_HEIGHT \div 2) - WORLD_HEIGHT \div 2
  IN [startX |-> startX, startZ |-> startZ,
      endX |-> startX + PLOT_WIDTH, endZ |-> startZ + PLOT_HEIGHT,
      centerX |-> startX + PLOT_WIDTH \div 2,
      centerZ |-> startZ + PLOT_HEIGHT \div 2]

getPlotWorldCoordinates(gridX, gridZ) ==
  LET startX == gridX * PLOT_WIDTH - WORLD_WIDTH \div 2
      startZ == gridZ * PLOT_HEIGHT - WORLD_HEIGHT \div 2
  IN [startX |-> startX, startZ |-> startZ,
      endX |-> startX + PLOT_WIDTH, endZ |-> startZ + PLOT_HEIGHT,
      centerX |-> startX + PLOT_WIDTH \div 2,
      centerZ |-> startZ + PLOT_HEIGHT \div 2]

(***************************************************************************)
(* Growth engine                                                           *)
(***************************************************************************)
\* Math.floor((timeSincePlanted * waterBonus) / GROWTH_TIME) with waterBonus
\* 1.5 or 1: for integer milliseconds t * 1.5 / G = 3t / 2G exactly.
\* Mutant: the stage is not capped at 5.
calculateTreeGrowth_NoCap(tree, t) ==
  LET timeSincePlanted == t - tree.plantedAt
      timeSinceWatered == t - tree.lastWatered
  IN IF timeSinceWatered < WATERED_WINDOW
     THEN (3 * timeSincePlanted) \div (2 * GROWTH_TIME)
     ELSE timeSincePlanted \div GROWTH_TIME

\* Mutant: a recent watering halves the growth instead of adding half to it.
calculateTreeGrowth_HalfBonus(tree, t) ==
  LET timeSincePlanted == t - tree.plantedAt
      timeSinceWatered == t - tree.lastWatered
      growthStages == IF timeSinceWatered < WATERED_WINDOW
                      THEN timeSincePlanted \div (2 * GROWTH_TIME)
                      ELSE timeSincePlanted \div GROWTH_TIME
  IN Min(growthStages, MAX_GROWTH_STAGE)

calculateTreeGrowth(tree, t) ==
  LET timeSincePlanted == t - tree.plantedAt
      timeSinceWatered == t - tree.lastWatered
      growthStages == IF timeSinceWatered < WATERED_WINDOW
                      THEN (3 * timeSincePlanted) \div (2 * GROWTH_TIME)
                      ELSE timeSincePlanted \div GROWTH_TIME
  IN Min(growthStages, MAX_GROWTH_STAGE)

\* calculateTreeHealth is real-valued: 100 - max(0, hours - 1) * 10 with
\* hours = timeSinceWatered / MS_PER_HOUR.  One health point is lost per
\* MS_PER_HOUR / 10 ms, so the result is given in units of 10 / MS_PER_HOUR
\* of a point (health * MS_PER_HOUR / 10), which keeps it an exact integer.
MS_PER_HOUR == 3600000
HealthUnit == MS_PER_HOUR \div 10
Max(a, b) == IF a >= b THEN a ELSE b

calculateTreeHealth(tree, t) ==
  LET timeSinceWatered == t - tree.lastWatered
      healthLoss == Max(0, timeSinceWatered - MS_PER_HOUR)
  IN Max(0, 100 * HealthUnit - healthLoss)

(***************************************************************************)
(* Records                                                                 *)
(***************************************************************************)
\* The fields the server only ever writes (lastActive, lastPlayed, purchasedAt,
\* avatar, names, colours) are left out of the records.
getDefaultPlayer(username) ==
  [id |-> username, level |-> 1, experience |-> 0, coins |-> START_COINS,
   achievements |-> <<>>, landPlots |-> <<>>,
   position |-> [x |-> 0, y |-> 0, z |-> 0]]

getDefaultBiome == [landPlots |-> <<>>, players |-> <<>>]

getDefaultGameState(player, biome) ==
  [player |-> player, currentBiome |-> biome, trees |-> <<>>,
   resources |-> [seeds |-> START_SEEDS, water |-> START_WATER,
                  fertilizer |-> 0, coins |-> player.coins]]

\* Array.prototype.find / findIndex: the first index that satisfies Test, 0 if none.
FirstIndex(seq, Test(_)) ==
  IF \E i \in 1 .. Len(seq) : Test(seq[i])
  THEN CHOOSE i \in 1 .. Len(seq) :
         Test(seq[i]) /\ \A j \in 1 .. i - 1 : ~Test(seq[j])
  ELSE 0

RemoveAt(seq, i) == SubSeq(seq, 1, i - 1) \o SubSeq(seq, i + 1, Len(seq))

\* Mutant: no achievement is ever seen as held.
HasAchievement_Never(player, aid) == FALSE

HasAchievement(player, aid) ==
  \E i \in 1 .. Len(player.achievements) : player.achievements[i].id = aid

\* count is truthy and >= n
CountAtLeast(count, n) == count # 0 /\ count >= n

checkAchievements(player, action, count, t) ==
  LET Unlock(cond, aid) ==
        IF cond /\ ~HasAchievement(player, aid)
        THEN <<[id |-> aid, unlockedAt |-> t]>> ELSE <<>>
  IN Unlock(action = "plant_tree", "first_tree")
     \o Unlock(action = "plant_tree" /\ CountAtLeast(count, 50), "tree_master")
     \o Unlock(action = "harvest_tree" /\ CountAtLeast(count, 25), "harvester")
     \o Unlock(action = "buy_land" /\ Len(player.landPlots) >= 5, "landowner")
     \o Unlock(player.coins >= 10000, "millionaire")
     \o Unlock(player.level >= 25, "master_gardener")

\* Mutant: the boundary is excluded (distance < radius).
WithinRadius_Strict(a, b, radius) ==
  /\ radius > 0
  /\ (a.x - b.x) * (a.x - b.x) + (a.z - b.z) * (a.z - b.z) < radius * radius

\* Math.sqrt(dx^2 + dz^2) <= radius for integer coordinates and an integer
\* radius: a negative radius admits nothing, otherwise the squares compare.
WithinRadius(a, b, radius) ==
  /\ radius >= 0
  /\ (a.x - b.x) * (a.x - b.x) + (a.z - b.z) * (a.z - b.z) <= radius * radius

\* biome.players.filter(p => ...), from the i-th roster entry on: the entries
\* that pass, in roster order.
RECURSIVE NearbyFrom(_, _, _, _)
NearbyFrom(player, roster, radius, i) ==
  IF i > Len(roster) THEN <<>>
  ELSE LET p == roster[i]
           keep == IF p.id = player.id THEN FALSE
                   ELSE WithinRadius(p.position, player.position, radius)
       IN (IF keep THEN <<p>> ELSE <<>>)
            \o NearbyFrom(player, roster, radius, i + 1)

getNearbyPlayers(player, roster, radius) == NearbyFrom(player, roster, radius, 1)

\* Mutant: a failed claimPlot is ignored and the plot is created all the same.
allocateStartingLand_IgnoreClaim(player, biome, claimed, id) ==
  LET availablePlot == findAvailablePlot(claimed) IN
  IF availablePlot = Null
  THEN [ok |-> FALSE, message |-> "No available plots in the world"]
  ELSE
    LET w == getPlotWorldCoordinates(availablePlot.gridX, availablePlot.gridZ)
        c == claimPlot(claimed, availablePlot.gridX, availablePlot.gridZ)
        landPlot == [id |-> id, x |-> w.centerX, z |-> w.centerZ,
                     ownerId |-> player.id, trees |-> <<>>, price |-> 0]
        newPlayer == [player EXCEPT
                        !.landPlots = Append(@, landPlot.id),
                        !.position = [x |-> w.centerX, y |-> 0, z |-> w.centerZ]]
    IN [ok |-> TRUE, claimed |-> c.claimed, player |-> newPlayer,
        biome |-> [landPlots |-> Append(biome.landPlots, landPlot),
                   players |-> [biome.players EXCEPT ![Len(biome.players)] = newPlayer]]]

\* Mutant: the plot is given to the first player of the roster.
allocateStartingLand_FirstOwner(player, biome, claimed, id) ==
  LET availablePlot == findAvailablePlot(claimed) IN
  IF availablePlot = Null
  THEN [ok |-> FALSE, message |-> "No available plots in the world"]
  ELSE
    LET w == getPlotWorldCoordinates(availablePlot.gridX, availablePlot.gridZ)
        c == claimPlot(claimed, availablePlot.gridX, availablePlot.gridZ)
        landPlot == [id |-> id, x |-> w.centerX, z |-> w.centerZ,
                     ownerId |-> biome.players[1].id, trees |-> <<>>,
                     price |-> 0]
        newPlayer == [player EXCEPT
                        !.landPlots = Append(@, landPlot.id),
                        !.position = [x |-> w.centerX, y |-> 0, z |-> w.centerZ]]
    IN IF ~c.ok
       THEN [ok |-> FALSE, message |-> "Failed to claim plot"]
       ELSE [ok |-> TRUE, claimed |-> c.claimed, player |-> newPlayer,
             biome |-> [landPlots |-> Append(biome.landPlots, landPlot),
                        players |-> [biome.players EXCEPT
                                       ![Len(biome.players)] = newPlayer]]]

\* biome.players already ends with this very player object (pushed by the
\* caller), so the changes made to player show in the roster entry too.
allocateStartingLand(player, biome, claimed, id) ==
  LET availablePlot == findAvailablePlot(claimed) IN
  IF availablePlot = Null
  THEN [ok |-> FALSE, message |-> "No available plots in the world"]
  ELSE
    LET w == getPlotWorldCoordinates(availablePlot.gridX, availablePlot.gridZ)
        c == claimPlot(claimed, availablePlot.gridX, availablePlot.gridZ)
        landPlot == [id |-> id, x |-> w.centerX, z |-> w.centerZ,
                     ownerId |-> player.id, trees |-> <<>>, price |-> 0]
        newPlayer == [player EXCEPT
                        !.landPlots = Append(@, landPlot.id),
                        !.position = [x |-> w.centerX, y |-> 0, z |-> w.centerZ]]
    IN IF ~c.ok
       THEN [ok |-> FALSE, message |-> "Failed to claim plot"]
       ELSE [ok |-> TRUE, claimed |-> c.claimed, player |-> newPlayer,
             biome |-> [landPlots |-> Append(biome.landPlots, landPlot),
                        players |-> [biome.players EXCEPT
                                       ![Len(biome.players)] = newPlayer]]]

(***************************************************************************)
(* Requests and responses                                                  *)
(*                                                                         *)
(* A request in flight is a record: its handler's local variables and pc,  *)
(* the await it is suspended at.  Every store call takes effect when it is *)
(* issued; the handler resumes in a later step.                            *)
(***************************************************************************)
NoRewards == [coins |-> 0, seeds |-> 0, experience |-> 0]

\* Requests are told apart by the slot they occupy while in flight.
FreeSlot == CHOOSE k \in 1 .. maxInflight : \A q \in inflight : q.rid # k

NewRequest(op, user, args) ==
  [rid |-> FreeSlot, op |-> op, user |-> user, args |-> args, pc |-> "start",
   player |-> Null, biome |-> Null, gameState |-> Null, out |-> Null]

\* What res.json / res.status(..).json sends.
Response(r, code, success, message, gameState, extra) ==
  [rid |-> r.rid, op |-> r.op, user |-> r.user, args |-> r.args, code |-> code,
   success |-> success, message |-> message, gameState |-> gameState,
   extra |-> extra]

RequestBudget == budget

\* A request is accepted only while fewer than maxInflight are in flight.
Accept(op, user, args) ==
  /\ started < RequestBudget
  /\ Cardinality(inflight) < maxInflight
  /\ started' = started + 1
  /\ UNCHANGED <<now, maxInflight, budget, allocVars, growthVars, achVars,
                 nearVars, randVars, chatVars>>

\* What every continuation of a handler leaves alone.
Resume(r, op) ==
  /\ r \in inflight
  /\ r.op = op
  /\ UNCHANGED <<now, started, maxInflight, budget, allocVars, growthVars,
                 achVars,
                 nearVars, randVars, chatVars>>

Suspend(r, r2) == inflight' = (inflight \ {r}) \cup {r2}
Reply(r, response) == inflight' = inflight \ {r} /\ resp' = response

Roster(biome) == {biome.players[i].id : i \in 1 .. Len(biome.players)}

(***************************************************************************)
(* GET /api/init                                                           *)
(***************************************************************************)
\* The request arrives; the handler awaits reddit.getCurrentUsername().
InitRequest(username) ==
  /\ Accept("init", username, Null)
  /\ inflight' = inflight \cup {NewRequest("init", username, Null)}
  /\ UNCHANGED <<claimedPlots, storePlayer, storeBiome, storeGameState,
                 nextId, resp>>

\* if (!player) { ... } else { ... }, up to the savePlayer either branch issues.
InitRegister(r, biome) ==
  IF r.player = Null
  THEN
    LET player == getDefaultPlayer(r.user)
        pushed == [biome EXCEPT !.players = Append(@, player)]
        a == allocateStartingLand(player, pushed, claimedPlots, nextId)
        free == findAvailablePlot(claimedPlots) # Null
                /\ Cardinality(claimedPlots) < MAX_PLAYERS
    IN IF ~a.ok
       THEN /\ Reply(r, Response(r, 400, "none", a.message, Null,
                                 [newPlayer |-> TRUE, cellFree |-> free]))
            /\ UNCHANGED <<claimedPlots, storePlayer, storeBiome, nextId>>
       ELSE /\ claimedPlots' = a.claimed
            /\ nextId' = nextId + 1
            /\ storePlayer' = [storePlayer EXCEPT ![r.user] = a.player]
            /\ Suspend(r, [r EXCEPT !.player = a.player, !.biome = a.biome,
                                    !.pc = "savePlayerNew",
                                    !.out = [newPlayer |-> TRUE, cellFree |-> free]])
            /\ UNCHANGED <<storeBiome, resp>>
  ELSE
    \* player.lastActive = Date.now(); the record read is written back
    LET player == r.player
    IN /\ storePlayer' = [storePlayer EXCEPT ![r.user] = player]
       /\ Suspend(r, [r EXCEPT !.player = player, !.biome = biome,
                               !.pc = "savePlayer",
                               !.out = [newPlayer |-> FALSE, cellFree |-> TRUE]])
       /\ UNCHANGED <<claimedPlots, storeBiome, nextId, resp>>

\* The handler resumes from the await named by r.pc and runs to its next await.
InitContinue(r) ==
  /\ Resume(r, "init")
  /\ CASE r.pc = "start" ->
            /\ Suspend(r, [r EXCEPT !.player = storePlayer[r.user],
                                    !.pc = "getPlayer"])
            /\ UNCHANGED <<claimedPlots, storePlayer, storeBiome,
                           storeGameState, nextId, resp>>
       [] r.pc = "getPlayer" ->
            /\ Suspend(r, [r EXCEPT !.biome = storeBiome, !.pc = "getBiome"])
            /\ UNCHANGED <<claimedPlots, storePlayer, storeBiome,
                           storeGameState, nextId, resp>>
       [] r.pc = "getBiome" /\ r.biome = Null ->
            /\ storeBiome' = getDefaultBiome
            /\ Suspend(r, [r EXCEPT !.biome = getDefaultBiome,
                                    !.pc = "saveDefaultBiome"])
            /\ UNCHANGED <<claimedPlots, storePlayer, storeGameState, nextId,
                           resp>>
       [] r.pc = "getBiome" /\ r.biome # Null ->
            /\ InitRegister(r, r.biome)
            /\ UNCHANGED storeGameState
       [] r.pc = "saveDefaultBiome" ->
            /\ InitRegister(r, r.biome)
            /\ UNCHANGED storeGameState
       [] r.pc = "savePlayerNew" ->
            /\ storeBiome' = r.biome
            /\ Suspend(r, [r EXCEPT !.pc = "savePlayer"])
            /\ UNCHANGED <<claimedPlots, storePlayer, storeGameState, nextId,
                           resp>>
       [] r.pc = "savePlayer" ->
            /\ Suspend(r, [r EXCEPT !.gameState = storeGameState[r.user],
                                    !.pc = "getGameState"])
            /\ UNCHANGED <<claimedPlots, storePlayer, storeBiome,
                           storeGameState, nextId, resp>>
       [] r.pc = "getGameState" ->
            LET gameState ==
                  IF r.gameState = Null
                  THEN getDefaultGameState(r.player, r.biome)
                  ELSE [r.gameState EXCEPT !.player = r.player,
                                           !.currentBiome = r.biome]
            IN /\ storeGameState' = [storeGameState EXCEPT ![r.user] = gameState]
               /\ Suspend(r, [r EXCEPT !.gameState = gameState,
                                       !.pc = "saveGameState"])
               /\ UNCHANGED <<claimedPlots, storePlayer, storeBiome, nextId,
                              resp>>
       [] r.pc = "saveGameState" ->
            /\ Reply(r, Response(r, 200, "none", "init", r.gameState, r.out))
            /\ UNCHANGED <<claimedPlots, storePlayer, storeBiome,
                           storeGameState, nextId>>

(***************************************************************************)
(* What the action handlers share                                          *)
(***************************************************************************)
\* const gameState = await getGameState(req.body.playerId || '') is the first
\* thing every action handler does when its request arrives.
ActionRequest(op, playerId, args) ==
  /\ Accept(op, playerId, args)
  /\ inflight' = inflight \cup
       {[NewRequest(op, playerId, args) EXCEPT
           !.gameState = storeGameState[playerId], !.pc = "getGameState"]}
  /\ UNCHANGED <<claimedPlots, storePlayer, storeBiome, storeGameState,
                 nextId, resp>>

NothingWritten ==
  UNCHANGED <<claimedPlots, storePlayer, storeBiome, storeGameState, nextId>>

\* res.status(404).json({status: 'error', message: 'Game state not found'})
GameStateNotFound(r) ==
  /\ Reply(r, Response(r, 404, "none", "Game state not found", Null, Null))
  /\ NothingWritten

\* Mutant: the refusal is sent after a seed was taken and the GameState saved.
Refuse_Charged(r, message) ==
  /\ Reply(r, Response(r, 200, "false", message, r.gameState, Null))
  /\ storeGameState' =
       [storeGameState EXCEPT
          ![r.user] = [r.gameState EXCEPT !.resources.seeds = @ - 1]]
  /\ UNCHANGED <<claimedPlots, storePlayer, storeBiome, nextId>>

\* res.json({..., gameState, success: false, message})
Refuse(r, message) ==
  /\ Reply(r, Response(r, 200, "false", message, r.gameState, Null))
  /\ NothingWritten

\* Mutant: the wallet's copy of the balance is not refreshed.
SyncCoins_Skip(gameState) == gameState

\* gameState.resources.coins = gameState.player.coins
SyncCoins(gameState) ==
  [gameState EXCEPT !.resources.coins = gameState.player.coins]

\* Mutant: the save keeps the resources of the record it replaces.
SaveGameState_KeepResources(r, gameState, out) ==
  LET old == storeGameState[gameState.player.id]
      merged == IF old = Null THEN gameState
                ELSE [gameState EXCEPT !.resources = old.resources]
  IN /\ storeGameState' = [storeGameState EXCEPT ![gameState.player.id] = merged]
     /\ Suspend(r, [r EXCEPT !.gameState = gameState, !.out = out,
                             !.pc = "saveGameState"])
     /\ UNCHANGED <<claimedPlots, storePlayer, storeBiome, resp>>

\* await saveGameState(gameState), issued at the end of the mutation.
SaveGameState(r, gameState, out) ==
  /\ storeGameState' = [storeGameState EXCEPT ![gameState.player.id] = gameState]
  /\ Suspend(r, [r EXCEPT !.gameState = gameState, !.out = out,
                          !.pc = "saveGameState"])
  /\ UNCHANGED <<claimedPlots, storePlayer, storeBiome, resp>>

\* await savePlayer(player)
SavePlayer(r) ==
  /\ storePlayer' = [storePlayer EXCEPT ![r.gameState.player.id] = r.gameState.player]
  /\ Suspend(r, [r EXCEPT !.pc = "savePlayer"])
  /\ UNCHANGED <<claimedPlots, storeBiome, storeGameState, nextId, resp>>

\* await saveBiome(biome)
SaveBiome(r) ==
  /\ storeBiome' = r.gameState.currentBiome
  /\ Suspend(r, [r EXCEPT !.pc = "saveBiome"])
  /\ UNCHANGED <<claimedPlots, storePlayer, storeGameState, nextId, resp>>

\* res.json({..., gameState, success: true, ...}) once the last save returned
Succeed(r, message) ==
  /\ Reply(r, Response(r, 200, "true", message, r.gameState, r.out))
  /\ NothingWritten

(***************************************************************************)
(* POST /api/plant-tree                                                    *)
(***************************************************************************)
PLANT_REACH == 5

PlantTreeRequest(playerId, treeType, x, z) ==
  ActionRequest("plant_tree", playerId, [treeType |-> treeType, x |-> x, z |-> z])

\* Mutant: a plot is never found full.
PlotFull_Never(plot) == FALSE

\* landPlot.trees.length >= MAX_TREES_PER_PLOT
PlotFull(plot) == Len(plot.trees) >= MAX_TREES_PER_PLOT

\* Mutant: the owner of the plot is not looked at.
OwnsLandAt_AnyOwner(plot, player, x, z) ==
  /\ Abs(plot.x - x) < PLANT_REACH
  /\ Abs(plot.z - z) < PLANT_REACH

\* Math.abs(plot.x - x) < 5 && Math.abs(plot.z - z) < 5 &&
\* plot.ownerId === player.id
OwnsLandAt(plot, player, x, z) ==
  /\ Abs(plot.x - x) < PLANT_REACH
  /\ Abs(plot.z - z) < PLANT_REACH
  /\ plot.ownerId = player.id

PlantTreeApply(r) ==
  LET gameState == r.gameState
      player == gameState.player
      biome == gameState.currentBiome
      OwnedHere(plot) == OwnsLandAt(plot, player, r.args.x, r.args.z)
      li == FirstIndex(biome.landPlots, OwnedHere)
  IN IF li = 0 THEN Refuse(r, "You can only plant trees on your own land!")
     ELSE IF PlotFull(biome.landPlots[li])
     THEN Refuse(r, "This land plot is full!")
     ELSE IF gameState.resources.seeds <= 0 THEN Refuse(r, "Not enough seeds!")
     ELSE
       LET newTree == [id |-> nextId, type |-> r.args.treeType, x |-> r.args.x,
                       z |-> r.args.z, growthStage |-> 0, plantedAt |-> now,
                       lastWatered |-> now, health |-> 100, ownerId |-> player.id]
           trees == Append(gameState.trees, newTree)
           grown == [player EXCEPT !.experience = @ + 10]
           newAchievements == checkAchievements(grown, "plant_tree", Len(trees), now)
           after == [gameState EXCEPT
                       !.trees = trees,
                       !.currentBiome.landPlots[li].trees = Append(@, newTree.id),
                       !.resources.seeds = @ - 1,
                       !.player = [grown EXCEPT !.achievements = @ \o newAchievements]]
       IN /\ nextId' = nextId + 1
          /\ SaveGameState(r, after, [achievements |-> newAchievements])

PlantTreeContinue(r) ==
  /\ Resume(r, "plant_tree")
  /\ CASE r.pc = "getGameState" /\ r.gameState = Null -> GameStateNotFound(r)
       [] r.pc = "getGameState" /\ r.gameState # Null -> PlantTreeApply(r)
       [] r.pc = "saveGameState" -> SavePlayer(r)
       [] r.pc = "savePlayer" -> SaveBiome(r)
       [] r.pc = "saveBiome" -> Succeed(r, "Planted a tree!")

(***************************************************************************)
(* POST /api/buy-land                                                      *)
(***************************************************************************)
LAND_SPACING == 10

BuyLandRequest(playerId, x, z) ==
  ActionRequest("buy_land", playerId, [x |-> x, z |-> z])

\* Mutant: the plot is handed over without payment.
PayForLand_Free(player, landPlot) ==
  [player EXCEPT !.landPlots = Append(@, landPlot.id)]

\* player.landPlots.push(newLandPlot.id); player.coins -= LAND_PLOT_COST
PayForLand(player, landPlot) ==
  [player EXCEPT !.landPlots = Append(@, landPlot.id),
                 !.coins = @ - LAND_PLOT_COST]

BuyLandApply(r) ==
  LET gameState == r.gameState
      player == gameState.player
      biome == gameState.currentBiome
      Near(plot) == /\ Abs(plot.x - r.args.x) < LAND_SPACING
                    /\ Abs(plot.z - r.args.z) < LAND_SPACING
  IN IF FirstIndex(biome.landPlots, Near) # 0
     THEN Refuse(r, "This land is already owned!")
     ELSE IF player.coins < LAND_PLOT_COST THEN Refuse(r, "Not enough coins!")
     ELSE
       LET newLandPlot == [id |-> nextId, x |-> r.args.x, z |-> r.args.z,
                           ownerId |-> player.id, trees |-> <<>>,
                           price |-> LAND_PLOT_COST]
           paid == PayForLand(player, newLandPlot)
           newAchievements ==
             checkAchievements(paid, "buy_land", Len(paid.landPlots), now)
           bought == SyncCoins([gameState EXCEPT
                         !.currentBiome.landPlots = Append(@, newLandPlot),
                         !.player = paid])
           after == [bought EXCEPT !.player.achievements = @ \o newAchievements]
       IN /\ nextId' = nextId + 1
          \* was: the player as loaded (recorded for the properties; not
          \* part of the response)
          /\ SaveGameState(r, after, [achievements |-> newAchievements,
                                      landPlot |-> newLandPlot,
                                      was |-> player])

BuyLandContinue(r) ==
  /\ Resume(r, "buy_land")
  /\ CASE r.pc = "getGameState" /\ r.gameState = Null -> GameStateNotFound(r)
       [] r.pc = "getGameState" /\ r.gameState # Null -> BuyLandApply(r)
       [] r.pc = "saveGameState" -> SavePlayer(r)
       [] r.pc = "savePlayer" -> SaveBiome(r)
       [] r.pc = "saveBiome" -> Succeed(r, "Purchased land plot!")

(***************************************************************************)
(* POST /api/move-player                                                   *)
(***************************************************************************)
MovePlayerRequest(playerId, x, y, z) ==
  ActionRequest("move_player", playerId, [x |-> x, y |-> y, z |-> z])

MovePlayerApply(r) ==
  LET gameState == r.gameState
      moved == [gameState.player EXCEPT !.position = r.args]
      IsPlayer(p) == p.id = moved.id
      bi == FirstIndex(gameState.currentBiome.players, IsPlayer)
      after == IF bi = 0
               THEN [gameState EXCEPT !.player = moved]
               ELSE [gameState EXCEPT !.player = moved,
                                      !.currentBiome.players[bi] = moved]
  IN /\ SaveGameState(r, after, [position |-> r.args])
     /\ UNCHANGED nextId

MovePlayerContinue(r) ==
  /\ Resume(r, "move_player")
  /\ CASE r.pc = "getGameState" /\ r.gameState = Null -> GameStateNotFound(r)
       [] r.pc = "getGameState" /\ r.gameState # Null -> MovePlayerApply(r)
       [] r.pc = "saveGameState" -> SavePlayer(r)
       [] r.pc = "savePlayer" -> SaveBiome(r)
       [] r.pc = "saveBiome" -> Succeed(r, "moved")

(***************************************************************************)
(* POST /api/water-tree                                                    *)
(***************************************************************************)
WATER_HEALTH_BONUS == 20

WaterTreeRequest(playerId, treeId) ==
  ActionRequest("water_tree", playerId, [treeId |-> treeId])

WaterTreeApply(r) ==
  LET gameState == r.gameState
      IsTree(t) == t.id = r.args.treeId
      ti == FirstIndex(gameState.trees, IsTree)
  IN IF gameState.resources.water <= 0 THEN Refuse(r, "Not enough water!")
     ELSE IF ti = 0 THEN Refuse(r, "Tree not found!")
     ELSE
       LET after == [gameState EXCEPT
                       !.trees[ti].lastWatered = now,
                       !.trees[ti].health = Min(100, @ + WATER_HEALTH_BONUS),
                       !.resources.water = @ - 1,
                       !.player.experience = @ + 5]
       \* watered, water, experience, at: the tree, the water and the
       \* experience as they were loaded and the time of the watering
       \* (recorded for the properties; not part of the response)
       IN /\ SaveGameState(r, after, [watered |-> gameState.trees[ti],
                                      water |-> gameState.resources.water,
                                      experience |-> gameState.player.experience,
                                      at |-> now])
          /\ UNCHANGED nextId

WaterTreeContinue(r) ==
  /\ Resume(r, "water_tree")
  /\ CASE r.pc = "getGameState" /\ r.gameState = Null -> GameStateNotFound(r)
       [] r.pc = "getGameState" /\ r.gameState # Null -> WaterTreeApply(r)
       [] r.pc = "saveGameState" -> Succeed(r, "Watered tree!")

(***************************************************************************)
(* POST /api/harvest-tree                                                  *)
(***************************************************************************)
baseReward(type) ==
  CASE type = "oak" -> 20 [] type = "pine" -> 15 [] type = "cherry" -> 25
    [] type = "maple" -> 18 [] type = "cedar" -> 22

\* Mutant: the maturity test never rejects.
NotMature_Never(tree) == tree.growthStage < 0

\* if (tree.growthStage < 5): the field stored with the tree is what is tested.
NotMature(tree) == tree.growthStage < MAX_GROWTH_STAGE

HarvestTreeRequest(playerId, treeId) ==
  ActionRequest("harvest_tree", playerId, [treeId |-> treeId])

HarvestTreeApply(r) ==
  LET gameState == r.gameState
      IsTree(t) == t.id = r.args.treeId
      ti == FirstIndex(gameState.trees, IsTree)
  IN IF ti = 0
     THEN /\ Reply(r, Response(r, 404, "none", "Tree not found!", Null, Null))
          /\ NothingWritten
     ELSE IF NotMature(gameState.trees[ti])
     THEN \* stageNow: what calculateTreeGrowth gives for this tree right now
          \* (recorded for the properties; the handler does not compute it)
          /\ Reply(r, Response(r, 200, "none", "", gameState,
                 [rewards |-> NoRewards,
                  stageNow |-> calculateTreeGrowth(gameState.trees[ti], now)]))
          /\ NothingWritten
     ELSE
       \* seeds = Math.floor(Math.random() * 3) + 1
       \E seeds \in 1 .. 3 :
         LET tree == gameState.trees[ti]
             coins == (baseReward(tree.type) * tree.health) \div 100
             experience == coins \div 2
             trees == RemoveAt(gameState.trees, ti)
             paid == [gameState.player EXCEPT !.coins = @ + coins,
                                              !.experience = @ + experience]
             newAchievements ==
               checkAchievements(paid, "harvest_tree", Len(trees), now)
             credited == SyncCoins([gameState EXCEPT !.player.coins = @ + coins])
             after == [credited EXCEPT
                         !.resources.seeds = @ + seeds,
                         !.player.experience = @ + experience,
                         !.trees = trees,
                         !.player.achievements = @ \o newAchievements]
         IN /\ SaveGameState(r, after,
                  [rewards |-> [coins |-> coins, seeds |-> seeds,
                                experience |-> experience],
                   achievements |-> newAchievements,
                   stageNow |-> calculateTreeGrowth(tree, now)])
            /\ UNCHANGED nextId

HarvestTreeContinue(r) ==
  /\ Resume(r, "harvest_tree")
  /\ CASE r.pc = "getGameState" /\ r.gameState = Null -> GameStateNotFound(r)
       [] r.pc = "getGameState" /\ r.gameState # Null -> HarvestTreeApply(r)
       [] r.pc = "saveGameState" -> SavePlayer(r)
       [] r.pc = "savePlayer" -> Succeed(r, "harvested")

(***************************************************************************)
(* POST /api/buy-seeds                                                     *)
(***************************************************************************)
BuySeedsRequest(playerId, quantity) ==
  ActionRequest("buy_seeds", playerId, [quantity |-> quantity])

\* Mutant: every purchase is found affordable.
CannotAfford_Never(gameState, totalCost) == FALSE

\* if (gameState.player.coins < totalCost)
CannotAfford(gameState, totalCost) == gameState.player.coins < totalCost

BuySeedsApply(r) ==
  LET gameState == r.gameState
      totalCost == SEED_COST * r.args.quantity
  IN IF CannotAfford(gameState, totalCost) THEN Refuse(r, "Not enough coins!")
     ELSE
       LET paid == SyncCoins([gameState EXCEPT !.player.coins = @ - totalCost])
           after == [paid EXCEPT !.resources.seeds = @ + r.args.quantity]
       IN /\ SaveGameState(r, after, Null)
          /\ UNCHANGED nextId

BuySeedsContinue(r) ==
  /\ Resume(r, "buy_seeds")
  /\ CASE r.pc = "getGameState" /\ r.gameState = Null -> GameStateNotFound(r)
       [] r.pc = "getGameState" /\ r.gameState # Null -> BuySeedsApply(r)
       [] r.pc = "saveGameState" -> SavePlayer(r)
       [] r.pc = "savePlayer" -> Succeed(r, "Bought seeds!")

(***************************************************************************)
(* Inputs of the requests                                                  *)
(***************************************************************************)
CellCentre(cell) ==
  LET w == getPlotWorldCoordinates(cell[1], cell[2])
  IN [x |-> w.centerX, z |-> w.centerZ]

\* The centre of every grid cell, and a point on the border between the
\* first two cells of the scan.
Positions ==
  {CellCentre(c) : c \in Cells}
    \cup {[x |-> getPlotWorldCoordinates(0, 0).centerX,
           z |-> getPlotWorldCoordinates(0, 0).endZ]}

TreeTypeInputs == {"oak", "cherry"}
QuantityInputs == {1, 21}
\* every id generated so far, and one that names no tree
TreeIdInputs == 1 .. nextId

(***************************************************************************)
(* The clock                                                               *)
(***************************************************************************)
TickMs == MAX_GROWTH_STAGE * GROWTH_TIME

Tick ==
  /\ now < MaxTicks * TickMs
  /\ now' = now + TickMs
  /\ UNCHANGED <<claimedPlots, storePlayer, storeBiome, storeGameState,
                 nextId, inflight, resp, started, maxInflight, budget,
                 allocVars, growthVars, achVars,
                 nearVars, randVars, chatVars>>

(***************************************************************************)
(* Specifications of the request handlers                                  *)
(***************************************************************************)
NoResponse == [rid |-> 0, op |-> "none", user |-> 0, args |-> Null, code |-> 0,
               success |-> "none", message |-> "", gameState |-> Null,
               extra |-> Null]

IdleAlloc == allocLog = <<>>
IdleGrowth == gTree = Null /\ gNow = 0 /\ gObs = Null
IdleAch == aPlayer = Null /\ aNow = 0 /\ aLast = Null
IdleNear == nPlayer = Null /\ nRoster = <<>> /\ nearCall = Null
IdleChat == chatMessages = <<>> /\ chatSent = <<>> /\ chatRead = Null
IdleRand == rBiome = <<>> /\ rLast = Null

IdleWorld ==
  /\ storePlayer = [u \in Usernames |-> Null]
  /\ storeBiome = Null
  /\ storeGameState = [u \in Usernames |-> Null]
  /\ now = 0
  /\ nextId = 1
  /\ inflight = {}
  /\ resp = NoResponse
  /\ started = 0

\* A fresh process over an empty store, requests handled one at a time.
Init ==
  /\ claimedPlots = {}
  /\ IdleWorld
  /\ maxInflight = 1
  /\ budget = MaxRequests
  /\ IdleAlloc
  /\ IdleGrowth
  /\ IdleAch
  /\ IdleNear
  /\ IdleChat
  /\ IdleRand

\* The world once the first player's init has been answered: what
\* InitRequest(1) and its continuations leave behind in a fresh process.
AfterFirstInit ==
  LET player == getDefaultPlayer(1)
      pushed == [getDefaultBiome EXCEPT !.players = Append(@, player)]
      a == allocateStartingLand(player, pushed, {}, 1)
      gameState == getDefaultGameState(a.player, a.biome)
  IN /\ claimedPlots = a.claimed
     /\ storePlayer = [u \in Usernames |-> IF u = 1 THEN a.player ELSE Null]
     /\ storeBiome = a.biome
     /\ storeGameState = [u \in Usernames |-> IF u = 1 THEN gameState ELSE Null]
     /\ now = 0
     /\ nextId = 2
     /\ inflight = {}
     /\ resp = NoResponse
     /\ started = 0

\* Two requests may overlap; the behaviour starts in a fresh process or right
\* after the first player has registered.
InitConc ==
  /\ \/ claimedPlots = {} /\ IdleWorld
     \/ AfterFirstInit
  /\ maxInflight = 2
  /\ budget = MaxConcRequests
  /\ IdleAlloc
  /\ IdleGrowth
  /\ IdleAch
  /\ IdleNear
  /\ IdleChat
  /\ IdleRand

Next ==
  \/ \E u \in Usernames : InitRequest(u)
  \/ \E r \in inflight : InitContinue(r)
  \/ \E u \in Usernames, t \in TreeTypeInputs, p \in Positions :
       PlantTreeRequest(u, t, p.x, p.z)
  \/ \E r \in inflight : PlantTreeContinue(r)
  \/ \E u \in Usernames, p \in Positions : BuyLandRequest(u, p.x, p.z)
  \/ \E r \in inflight : BuyLandContinue(r)
  \/ \E u \in Usernames, p \in Positions : MovePlayerRequest(u, p.x, 0, p.z)
  \/ \E r \in inflight : MovePlayerContinue(r)
  \/ \E u \in Usernames, id \in TreeIdInputs : WaterTreeRequest(u, id)
  \/ \E r \in inflight : WaterTreeContinue(r)
  \/ \E u \in Usernames, id \in TreeIdInputs : HarvestTreeRequest(u, id)
  \/ \E r \in inflight : HarvestTreeContinue(r)
  \/ \E u \in Usernames, q \in QuantityInputs : BuySeedsRequest(u, q)
  \/ \E r \in inflight : BuySeedsContinue(r)
  \/ Tick

Spec == Init /\ [][Next]_vars

SpecConc == InitConc /\ [][Next]_vars

(***************************************************************************)
(* SpecLate, SpecLateConc: the handlers in a world with a history          *)
(*                                                                         *)
(* The behaviour starts in the world that this sequence of requests of     *)
(* player 1 leaves behind in a fresh process, all answered                 *)
(* before the next one arrived: init, buy-seeds of q seeds (if q > 0),     *)
(* k plant-tree requests at the centre of the starting plot, w water-tree  *)
(* requests for the first tree.  The server may then have been idle for    *)
(* IdleHours hours.                                                        *)
(***************************************************************************)
LateWorld(k, w, q) ==
  LET player0 == getDefaultPlayer(1)
      pushed == [getDefaultBiome EXCEPT !.players = Append(@, player0)]
      a == allocateStartingLand(player0, pushed, {}, 1)
      plot == a.biome.landPlots[1]
      \* the Player record as the last plant-tree saved it
      saved == [a.player EXCEPT
                  !.coins = @ - SEED_COST * q,
                  !.experience = 10 * k,
                  !.achievements = <<[id |-> "first_tree", unlockedAt |-> 0]>>]
      trees == [i \in 1 .. k |->
                  [id |-> i + 1, type |-> "oak", x |-> plot.x, z |-> plot.z,
                   growthStage |-> 0, plantedAt |-> 0, lastWatered |-> 0,
                   health |-> 100, ownerId |-> 1]]
      biome == [a.biome EXCEPT !.landPlots[1].trees = [i \in 1 .. k |-> i + 1]]
      \* water-tree adds its experience to the GameState's player only
      gameState ==
        [player |-> [saved EXCEPT !.experience = @ + 5 * w],
         currentBiome |-> biome,
         trees |-> trees,
         resources |-> [seeds |-> START_SEEDS + q - k, water |-> START_WATER - w,
                        fertilizer |-> 0, coins |-> saved.coins]]
  IN [claimed |-> a.claimed, player |-> saved, biome |-> biome,
      gameState |-> gameState, nextId |-> k + 2]

\* as many seeds as leave less than the price of a plot
LateSeedsBought == (START_COINS - LAND_PLOT_COST) \div SEED_COST + 1
LongIdle == IdleHours * MS_PER_HOUR

\* <<k, w, q>>: the plot full, and either all the water used or seeds bought
LateWorlds == {<<MAX_TREES_PER_PLOT, START_WATER, 0>>,
               <<MAX_TREES_PER_PLOT, 0, LateSeedsBought>>}
\* <<k, w, q>>: the plot full, or one tree short of full
LateConcWorlds == {<<MAX_TREES_PER_PLOT - 1, 0, 0>>,
                   <<MAX_TREES_PER_PLOT, 0, 0>>}

InitLateWorld(worlds, clocks) ==
  \E h \in worlds :
    LET world == LateWorld(h[1], h[2], h[3])
    IN /\ claimedPlots = world.claimed
       /\ storePlayer = [u \in Usernames |-> IF u = 1 THEN world.player ELSE Null]
       /\ storeBiome = world.biome
       /\ storeGameState =
            [u \in Usernames |-> IF u = 1 THEN world.gameState ELSE Null]
       /\ nextId = world.nextId
       /\ now \in clocks
       /\ inflight = {}
       /\ resp = NoResponse
       /\ started = 0
       /\ budget = MaxLateRequests
       /\ IdleAlloc
       /\ IdleGrowth
       /\ IdleAch
       /\ IdleNear
       /\ IdleChat
       /\ IdleRand

InitLate == InitLateWorld(LateWorlds, {0, LongIdle}) /\ maxInflight = 1
InitLateConc == InitLateWorld(LateConcWorlds, {0}) /\ maxInflight = 2

SpecLate == InitLate /\ [][Next]_vars

SpecLateConc == InitLateConc /\ [][Next]_vars

(***************************************************************************)
(* SpecRich: the handlers in the world of a player who owns several plots  *)
(*                                                                         *)
(* The behaviour starts in the world that this sequence of requests of     *)
(* player 1 leaves behind in a fresh process, all answered before the next *)
(* one arrived: init, then (if b > 0) buy-seeds with the negative quantity *)
(* RichQuantity, which the handler accepts and which credits coins, and b  *)
(* buy-land requests at the points RichPlotAt(1 .. b).                     *)
(***************************************************************************)
RichQuantity == 0 - 50

RichPlotAt(i) ==
  [x |-> getPlotWorldCoordinates(GRID_WIDTH - 1, 0).centerX + 2 * LAND_SPACING * i,
   z |-> getPlotWorldCoordinates(GRID_WIDTH - 1, 0).centerZ]

RichWorld(b) ==
  LET player0 == getDefaultPlayer(1)
      pushed == [getDefaultBiome EXCEPT !.players = Append(@, player0)]
      a == allocateStartingLand(player0, pushed, {}, 1)
      q == IF b > 0 THEN RichQuantity ELSE 0
      bought == [i \in 1 .. b |->
                   [id |-> i + 1, x |-> RichPlotAt(i).x, z |-> RichPlotAt(i).z,
                    ownerId |-> 1, trees |-> <<>>, price |-> LAND_PLOT_COST]]
      player == [a.player EXCEPT
                   !.coins = @ - SEED_COST * q - LAND_PLOT_COST * b,
                   !.landPlots = @ \o [i \in 1 .. b |-> i + 1],
                   !.achievements =
                     IF b >= 4 THEN <<[id |-> "landowner", unlockedAt |-> 0]>>
                     ELSE <<>>]
      biome == [a.biome EXCEPT !.landPlots = @ \o bought]
      gameState ==
        [player |-> player, currentBiome |-> biome, trees |-> <<>>,
         resources |-> [seeds |-> START_SEEDS + q, water |-> START_WATER,
                        fertilizer |-> 0, coins |-> player.coins]]
  IN [claimed |-> a.claimed, player |-> player, biome |-> biome,
      gameState |-> gameState, nextId |-> b + 2]

\* plots bought so far: none, one short of the landowner threshold, at it
RichWorlds == {0, 3, 4}

InitRich ==
  /\ \E b \in RichWorlds :
       LET world == RichWorld(b)
       IN /\ claimedPlots = world.claimed
          /\ storePlayer = [u \in Usernames |-> IF u = 1 THEN world.player ELSE Null]
          /\ storeBiome = world.biome
          /\ storeGameState =
               [u \in Usernames |-> IF u = 1 THEN world.gameState ELSE Null]
          /\ nextId = world.nextId
  /\ now = 0
  /\ inflight = {}
  /\ resp = NoResponse
  /\ started = 0
  /\ maxInflight = 1
  /\ budget = MaxLateRequests
  /\ IdleAlloc
  /\ IdleGrowth
  /\ IdleAch
  /\ IdleNear
  /\ IdleChat
  /\ IdleRand

SpecRich == InitRich /\ [][Next]_vars

(***************************************************************************)
(* The chat buffer, POST /api/send-chat-message, GET /api/chat-messages    *)
(***************************************************************************)
CHAT_CAP == 100
MAX_MESSAGE_LENGTH == 200
DEFAULT_CHAT_LIMIT == 20

\* Array.prototype.slice(start): a negative start counts from the end, and
\* slice(-0) is slice(0).
Slice(seq, start) ==
  LET from == IF start < 0 THEN Max(Len(seq) + start, 0) ELSE Min(start, Len(seq))
  IN SubSeq(seq, from + 1, Len(seq))

\* Mutant: the buffer is never trimmed.
addChatMessage_NoTrim(buffer, chatMessage) == Append(buffer, chatMessage)

\* chatMessages.push(chatMessage);
\* if (chatMessages.length > 100) chatMessages = chatMessages.slice(-100)
addChatMessage(buffer, chatMessage) ==
  LET pushed == Append(buffer, chatMessage)
  IN IF Len(pushed) > CHAT_CAP THEN Slice(pushed, 0 - CHAT_CAP) ELSE pushed

\* return chatMessages.slice(-limit)
getRecentChatMessages(buffer, limit) == Slice(buffer, 0 - limit)

\* The id is generated (chat_<time>_<random>); the number of the message
\* stands for it.
ChatMessage(id, playerId, username, text) ==
  [id |-> id, playerId |-> playerId, username |-> username, message |-> text,
   timestamp |-> now, type |-> "player"]

\* What the chat handlers leave alone.
ChatFrame ==
  UNCHANGED <<claimedPlots, storePlayer, storeBiome, storeGameState, now,
              nextId, maxInflight, budget, allocVars, growthVars, achVars,
              nearVars, randVars>>

\* postId, playerId and message of the body; playerId 0 and the empty text
\* stand for a missing field.  getPlayer is issued once the body is valid.
SendChatRequest(postId, playerId, text) ==
  LET args == [postId |-> postId, message |-> text]
      r == NewRequest("send_chat", playerId, args)
  IN /\ started < RequestBudget
     /\ Cardinality(inflight) < maxInflight
     /\ started' = started + 1
     /\ IF ~postId \/ playerId = 0 \/ text.length = 0
        THEN /\ resp' = Response(r, 400, "none", "Missing required fields",
                                 Null, Null)
             /\ UNCHANGED inflight
        ELSE IF text.length > MAX_MESSAGE_LENGTH
        THEN /\ resp' = Response(r, 400, "none",
                                 "Message too long (max 200 characters)",
                                 Null, Null)
             /\ UNCHANGED inflight
        ELSE /\ inflight' = inflight \cup
                  {[r EXCEPT !.player = storePlayer[playerId], !.pc = "getPlayer"]}
             /\ UNCHANGED resp
     /\ UNCHANGED chatVars
     /\ ChatFrame

SendChatContinue(r) ==
  /\ r \in inflight
  /\ r.op = "send_chat"
  /\ CASE r.pc = "getPlayer" /\ r.player = Null ->
            /\ Reply(r, Response(r, 404, "none", "Player not found", Null, Null))
            /\ UNCHANGED chatVars
       [] r.pc = "getPlayer" /\ r.player # Null ->
            LET chatMessage == ChatMessage(Len(chatSent) + 1, r.user,
                                           r.player.id, r.args.message.text)
            IN /\ chatMessages' = addChatMessage(chatMessages, chatMessage)
               /\ chatSent' = Append(chatSent, chatMessage)
               /\ Suspend(r, [r EXCEPT !.out = [chatMessage |-> chatMessage],
                                       !.pc = "addChatMessage"])
               /\ UNCHANGED <<chatRead, resp>>
       [] r.pc = "addChatMessage" ->
            /\ Reply(r, Response(r, 200, "true", "Message sent", Null, r.out))
            /\ UNCHANGED chatVars
  /\ UNCHANGED started
  /\ ChatFrame

\* getRecentChatMessages(limit) called with any limit.
GetRecentChatMessagesCall(limit) ==
  /\ chatRead' = [limit |-> limit, buffer |-> chatMessages,
                  ret |-> getRecentChatMessages(chatMessages, limit)]
  /\ UNCHANGED <<chatMessages, chatSent, inflight, resp, started>>
  /\ ChatFrame

\* const limit = parseInt(req.query.limit) || 20: a missing limit and the
\* limit 0 become 20.
ChatMessagesRequest(query) ==
  LET limit == IF ~query.given \/ query.value = 0 THEN DEFAULT_CHAT_LIMIT
               ELSE query.value
      r == NewRequest("chat_messages", 0, [limit |-> query])
      messages == getRecentChatMessages(chatMessages, limit)
  IN /\ started < RequestBudget
     /\ Cardinality(inflight) < maxInflight
     /\ started' = started + 1
     /\ chatRead' = [limit |-> limit, buffer |-> chatMessages, ret |-> messages]
     /\ resp' = Response(r, 200, "true", "", Null, [messages |-> messages])
     /\ UNCHANGED <<chatMessages, chatSent, inflight>>
     /\ ChatFrame

\* The buffer after n messages of player 1 were accepted one after another.
ChatHistory(n) == [i \in 1 .. n |-> ChatMessage(i, 1, 1, "hi")]

\* nothing said yet, one message short of the cap, one message evicted
ChatHistories == {0, CHAT_CAP - 1, CHAT_CAP + 1}

ChatTexts == {[text |-> "", length |-> 0], [text |-> "hi", length |-> 2],
              [text |-> "long", length |-> MAX_MESSAGE_LENGTH + 1]}
ChatQueries == {[given |-> FALSE, value |-> 0], [given |-> TRUE, value |-> 0],
                [given |-> TRUE, value |-> 2]}
ChatLimits == {0, 1, DEFAULT_CHAT_LIMIT, CHAT_CAP + 1}

InitChat ==
  /\ AfterFirstInit
  /\ \E n \in ChatHistories :
       /\ chatSent = ChatHistory(n)
       /\ chatMessages = Slice(ChatHistory(n), 0 - Min(n, CHAT_CAP))
  /\ chatRead = Null
  /\ maxInflight = 2
  /\ budget = MaxChatRequests
  /\ IdleAlloc
  /\ IdleGrowth
  /\ IdleAch
  /\ IdleNear
  /\ IdleRand

NextChat ==
  \/ \E postId \in BOOLEAN, playerId \in 0 .. 2, text \in ChatTexts :
       SendChatRequest(postId, playerId, text)
  \/ \E r \in inflight : SendChatContinue(r)
  \/ \E query \in ChatQueries : ChatMessagesRequest(query)
  \/ \E limit \in ChatLimits : GetRecentChatMessagesCall(limit)

SpecChat == InitChat /\ [][NextChat]_vars

(***************************************************************************)
(* SpecAlloc: the allocator's two functions called in any order            *)
(***************************************************************************)
InitAlloc ==
  /\ claimedPlots = {}
  /\ allocLog = <<>>
  /\ IdleWorld
  /\ maxInflight = 1
  /\ budget = 0
  /\ IdleGrowth
  /\ IdleAch
  /\ IdleNear
  /\ IdleChat
  /\ IdleRand

ClaimPlotCall(gridX, gridZ) ==
  LET c == claimPlot(claimedPlots, gridX, gridZ)
  IN /\ Len(allocLog) < MaxCalls
     /\ claimedPlots' = c.claimed
     /\ allocLog' = Append(allocLog, [fn |-> "claimPlot", gridX |-> gridX,
                                      gridZ |-> gridZ, before |-> claimedPlots,
                                      ret |-> c.ok])
     /\ UNCHANGED <<worldVars, growthVars, achVars,
                 nearVars, randVars, chatVars>>

FindAvailablePlotCall ==
  /\ Len(allocLog) < MaxCalls
  /\ allocLog' = Append(allocLog, [fn |-> "findAvailablePlot",
                                   before |-> claimedPlots,
                                   ret |-> findAvailablePlot(claimedPlots)])
  /\ UNCHANGED <<claimedPlots, worldVars, growthVars, achVars,
                 nearVars, randVars, chatVars>>

NextAlloc ==
  \/ \E c \in Cells : ClaimPlotCall(c[1], c[2])
  \/ FindAvailablePlotCall

SpecAlloc == InitAlloc /\ [][NextAlloc]_vars

(***************************************************************************)
(* SpecGrowth: one tree, its timestamps fixed, read as the clock advances  *)
(***************************************************************************)
GrowthStepMs == GROWTH_TIME \div 3

GrowthTimes == {k * GrowthStepMs : k \in 0 .. MaxGrowthSteps}

\* A tree as plantTree and any later waterTree leave it, read at once.
InitGrowth ==
  /\ \E p \in GrowthTimes, w \in GrowthTimes :
       /\ p <= w
       /\ gTree = [plantedAt |-> p, lastWatered |-> w]
       /\ gNow = w
       /\ gObs = [prev |-> calculateTreeGrowth([plantedAt |-> p, lastWatered |-> w], w),
                  cur |-> calculateTreeGrowth([plantedAt |-> p, lastWatered |-> w], w),
                  prevAt |-> w, curAt |-> w]
  /\ claimedPlots = {}
  /\ IdleWorld
  /\ maxInflight = 1
  /\ budget = 0
  /\ IdleAlloc
  /\ IdleAch
  /\ IdleNear
  /\ IdleChat
  /\ IdleRand

AdvanceClock ==
  /\ gNow + GrowthStepMs \in GrowthTimes
  /\ gNow' = gNow + GrowthStepMs
  /\ UNCHANGED <<gTree, gObs, claimedPlots, allocVars, worldVars, achVars,
                 nearVars, randVars, chatVars>>

ReadGrowth ==
  /\ gObs.curAt < gNow
  /\ gObs' = [prev |-> gObs.cur, prevAt |-> gObs.curAt,
              cur |-> calculateTreeGrowth(gTree, gNow), curAt |-> gNow]
  /\ UNCHANGED <<gTree, gNow, claimedPlots, allocVars, worldVars, achVars,
                 nearVars, randVars, chatVars>>

NextGrowth == AdvanceClock \/ ReadGrowth

SpecGrowth == InitGrowth /\ [][NextGrowth]_vars

(***************************************************************************)
(* SpecAch: checkAchievements evaluated for a player whose coins, level    *)
(* and land change between evaluations                                     *)
(***************************************************************************)
AchCoins == {START_COINS, 10000}
AchLevels == {1, 25}
AchLandPlots == {<<1>>, <<1, 2, 3, 4, 5>>}
AchActions == {"plant_tree", "harvest_tree", "buy_land"}
AchCounts == {0, 1, 50}

AchPlayer(coins, level, landPlots, achievements) ==
  [getDefaultPlayer(1) EXCEPT !.coins = coins, !.level = level,
                              !.landPlots = landPlots,
                              !.achievements = achievements]

InitAch ==
  /\ \E c \in AchCoins, l \in AchLevels, p \in AchLandPlots :
       aPlayer = AchPlayer(c, l, p, <<>>)
  /\ aNow = 0
  /\ aLast = Null
  /\ claimedPlots = {}
  /\ IdleWorld
  /\ maxInflight = 1
  /\ budget = 0
  /\ IdleAlloc
  /\ IdleGrowth
  /\ IdleNear
  /\ IdleChat
  /\ IdleRand

\* The handlers change coins, level and landPlots between two evaluations,
\* and time passes.
AchChange ==
  /\ aNow < MaxAchTime
  /\ \E c \in AchCoins, l \in AchLevels, p \in AchLandPlots :
       aPlayer' = AchPlayer(c, l, p, aPlayer.achievements)
  /\ aNow' = aNow + 1
  /\ UNCHANGED <<aLast, claimedPlots, allocVars, growthVars, worldVars,
                 nearVars, randVars, chatVars>>

\* const newAchievements = checkAchievements(player, action, count);
\* player.achievements.push(...newAchievements);
\* again: what a second call made before the push returns.
AchEvaluate(action, count) ==
  LET newAchievements == checkAchievements(aPlayer, action, count, aNow)
  IN /\ aLast' = [player |-> aPlayer, action |-> action, count |-> count,
                  ret |-> newAchievements,
                  again |-> checkAchievements(aPlayer, action, count, aNow)]
     /\ aPlayer' = [aPlayer EXCEPT !.achievements = @ \o newAchievements]
     /\ UNCHANGED <<aNow, claimedPlots, allocVars, growthVars, worldVars,
                 nearVars, randVars, chatVars>>

NextAch ==
  \/ AchChange
  \/ \E action \in AchActions, count \in AchCounts : AchEvaluate(action, count)

SpecAch == InitAch /\ [][NextAch]_vars

(***************************************************************************)
(* SpecNear: getNearbyPlayers called on a roster that players join         *)
(***************************************************************************)
\* 3-4-5 puts a player at distance exactly 5, 20-0 at exactly the default
\* radius 20; 4-4 and 20-3 lie just beyond them.
NearCoords == {0, 3, 4, 20}
NearHeights == {0, 50}
NearRadii == {0, 5, 20}
NearIds == 1 .. 2

NearPlayerAt(id, x, y, z) ==
  [getDefaultPlayer(id) EXCEPT !.position = [x |-> x, y |-> y, z |-> z]]

InitNear ==
  /\ nPlayer = NearPlayerAt(1, 0, 0, 0)
  /\ nRoster = <<>>
  /\ nearCall = Null
  /\ claimedPlots = {}
  /\ IdleWorld
  /\ maxInflight = 1
  /\ budget = 0
  /\ IdleAlloc
  /\ IdleGrowth
  /\ IdleAch
  /\ IdleChat
  /\ IdleRand

\* biome.players.push(player): a player, or an older copy of the asking
\* player, is on the roster at some position.
NearJoin(id, x, y, z) ==
  /\ Len(nRoster) < MaxRoster
  /\ nRoster' = Append(nRoster, NearPlayerAt(id, x, y, z))
  /\ UNCHANGED <<nPlayer, nearCall, claimedPlots, allocVars, growthVars,
                 achVars, chatVars, randVars, worldVars>>

NearbyCall(radius) ==
  /\ nearCall' = [player |-> nPlayer, roster |-> nRoster, radius |-> radius,
                  ret |-> getNearbyPlayers(nPlayer, nRoster, radius)]
  /\ UNCHANGED <<nPlayer, nRoster, claimedPlots, allocVars, growthVars,
                 achVars, chatVars, randVars, worldVars>>

NextNear ==
  \/ \E id \in NearIds, x \in NearCoords, y \in NearHeights, z \in NearCoords :
       NearJoin(id, x, y, z)
  \/ \E radius \in NearRadii : NearbyCall(radius)

SpecNear == InitNear /\ [][NextNear]_vars

(***************************************************************************)
(* SpecHarvest: the handlers over a store that holds a mature tree         *)
(*                                                                         *)
(* harvest-tree tests the growthStage stored with the tree.  plant-tree    *)
(* stores 0 and no handler writes the field afterwards, so the branch of   *)
(* harvest-tree behind the test runs only for a record that already holds  *)
(* a later stage.  The behaviour starts from the world of LateWorld with a *)
(* full plot, the stage stored with its trees being either 0 or            *)
(* MAX_GROWTH_STAGE, at once or after the server has idled long enough for *)
(* calculateTreeGrowth to give MAX_GROWTH_STAGE as well.                   *)
(***************************************************************************)
StoredStages == {0, MAX_GROWTH_STAGE}

HarvestWorld(stage) ==
  LET world == LateWorld(MAX_TREES_PER_PLOT, 0, 0)
  IN [world EXCEPT
        !.gameState.trees =
          [i \in 1 .. Len(@) |-> [@[i] EXCEPT !.growthStage = stage]]]

InitHarvest ==
  /\ \E stage \in StoredStages :
       LET world == HarvestWorld(stage)
       IN /\ claimedPlots = world.claimed
          /\ storePlayer =
               [u \in Usernames |-> IF u = 1 THEN world.player ELSE Null]
          /\ storeBiome = world.biome
          /\ storeGameState =
               [u \in Usernames |-> IF u = 1 THEN world.gameState ELSE Null]
          /\ nextId = world.nextId
  /\ now \in {0, LongIdle}
  /\ inflight = {}
  /\ resp = NoResponse
  /\ started = 0
  /\ maxInflight = 1
  /\ budget = MaxLateRequests
  /\ IdleAlloc
  /\ IdleGrowth
  /\ IdleAch
  /\ IdleNear
  /\ IdleChat
  /\ IdleRand

SpecHarvest == InitHarvest /\ [][Next]_vars

(***************************************************************************)
(* SpecRandom: allocateStartingLand of src/src/server/index.ts             *)
(*                                                                         *)
(* The earlier server places a new player by drawing grid-aligned points   *)
(* at random until one is free or the attempts are used up.  The function  *)
(* has no await: a call is one step, the points it draws are its input.    *)
(* init calls it for a player that has no record yet.                      *)
(***************************************************************************)
PLACEMENT_ATTEMPTS == AttemptCap
RANDOM_STEP == 10
START_SPACING == 10

\* Math.floor((Math.random() - 0.5) * 40) * 10
RandomCoords == {g * RANDOM_STEP : g \in (0 - RandomSpan) .. (RandomSpan - 1)}
RandomPoints == [x : RandomCoords, z : RandomCoords]

\* biome.landPlots.find(plot => Math.abs(plot.x - x) < 10 &&
\*                              Math.abs(plot.z - z) < 10)
SpotTaken(landPlots, x, z) ==
  \E i \in 1 .. Len(landPlots) :
    /\ Abs(landPlots[i].x - x) < START_SPACING
    /\ Abs(landPlots[i].z - z) < START_SPACING

\* The while loop from `attempts` on: draws[attempts + 1] is the point drawn
\* in the iteration that starts with that count.  Gives x, z and attempts
\* as they are when the loop is left.
RECURSIVE PlacementLoop(_, _, _)
PlacementLoop(landPlots, draws, attempts) ==
  LET point == draws[attempts + 1] IN
  IF ~SpotTaken(landPlots, point.x, point.z)
  THEN [x |-> point.x, z |-> point.z, attempts |-> attempts]
  ELSE IF attempts + 1 < PLACEMENT_ATTEMPTS
  THEN PlacementLoop(landPlots, draws, attempts + 1)
  ELSE [x |-> point.x, z |-> point.z, attempts |-> attempts + 1]

\* What the call leaves in biome.landPlots and in the player.
RandomAllocateStartingLand(player, landPlots, draws) ==
  LET left == PlacementLoop(landPlots, draws, 0)
      startingLandPlot == [id |-> player, x |-> left.x, z |-> left.z,
                           ownerId |-> player, trees |-> <<>>, price |-> 0]
  IN [landPlots |-> Append(landPlots, startingLandPlot),
      position |-> [x |-> left.x, y |-> 0, z |-> left.z],
      attempts |-> left.attempts,
      taken |-> SpotTaken(landPlots, left.x, left.z)]

InitRandom ==
  /\ rBiome = <<>>
  /\ rLast = Null
  /\ claimedPlots = {}
  /\ IdleWorld
  /\ maxInflight = 1
  /\ budget = 0
  /\ IdleAlloc
  /\ IdleGrowth
  /\ IdleAch
  /\ IdleNear
  /\ IdleChat

RandomAllocCall(player, draws) ==
  /\ \A i \in 1 .. Len(rBiome) : rBiome[i].ownerId # player
  /\ LET a == RandomAllocateStartingLand(player, rBiome, draws)
     IN /\ rBiome' = a.landPlots
        /\ rLast' = [player |-> player, draws |-> draws, before |-> rBiome,
                     position |-> a.position, attempts |-> a.attempts,
                     taken |-> a.taken]
  /\ UNCHANGED <<claimedPlots, allocVars, growthVars, achVars, nearVars,
                 chatVars, worldVars>>

NextRandom ==
  \E player \in Usernames, draws \in [1 .. PLACEMENT_ATTEMPTS -> RandomPoints] :
    RandomAllocCall(player, draws)

SpecRandom == InitRandom /\ [][NextRandom]_vars

(***************************************************************************)
(* GET /api/nearby-players, and SpecNearby: the handlers with it, one      *)
(* request at a time                                                       *)
(***************************************************************************)
\* radius: number = 20, the endpoint passes no radius
NEARBY_RADIUS == 20

NearbyPlayersRequest(playerId) == ActionRequest("nearby_players", playerId, Null)

\* getNearbyPlayers(gameState.player, gameState.currentBiome)
NearbyPlayersContinue(r) ==
  /\ Resume(r, "nearby_players")
  /\ r.pc = "getGameState"
  /\ IF r.gameState = Null
     THEN GameStateNotFound(r)
     ELSE /\ Reply(r, Response(r, 200, "none", "nearby_players", Null,
                     [players |-> getNearbyPlayers(r.gameState.player,
                                     r.gameState.currentBiome.players,
                                     NEARBY_RADIUS)]))
          /\ NothingWritten

NextNearby ==
  \/ Next
  \/ \E u \in Usernames : NearbyPlayersRequest(u)
  \/ \E r \in inflight : NearbyPlayersContinue(r)

SpecNearby == Init /\ [][NextNearby]_vars

(***************************************************************************)
(* SpecSigned: the handlers, one request at a time, buy-seeds taking zero  *)
(* and negative quantities as well                                         *)
(*                                                                         *)
(* const { treeType, quantity = 1 } = req.body: the handler uses the       *)
(* number the body carries as it is.                                       *)
(***************************************************************************)
\* zero, and one seed more than a new player holds
SignedQuantityInputs == {0, 0 - (START_SEEDS + 1)}

NextSigned ==
  \/ Next
  \/ \E u \in Usernames, q \in SignedQuantityInputs : BuySeedsRequest(u, q)

SpecSigned == Init /\ [][NextSigned]_vars

(***************************************************************************)
(* SpecFail: the handlers, one request at a time, over a store whose       *)
(* writes may fail                                                         *)
(*                                                                         *)
(* Every handler issues its saves one after the other inside one try       *)
(* block: await saveGameState; await savePlayer; await saveBiome.  When    *)
(* redis.set rejects, the await throws, the saves after it are not issued  *)
(* and the catch block answers with status 500.  The failures modelled are *)
(* those of a save that follows another one; a failing first save leaves   *)
(* the store as it was.                                                    *)
(***************************************************************************)
FailureMessage(op) ==
  CASE op = "plant_tree" -> "Failed to plant tree"
    [] op = "buy_land" -> "Failed to buy land"
    [] op = "move_player" -> "Failed to move player"
    [] op = "harvest_tree" -> "Failed to harvest tree"
    [] op = "buy_seeds" -> "Failed to buy seeds"

\* The save the handler issues when it resumes from the await named by r.pc.
NextSave(r) ==
  CASE r.op \in {"plant_tree", "buy_land", "move_player"}
         /\ r.pc = "saveGameState" -> "savePlayer"
    [] r.op \in {"plant_tree", "buy_land", "move_player"}
         /\ r.pc = "savePlayer" -> "saveBiome"
    [] r.op \in {"harvest_tree", "buy_seeds"}
         /\ r.pc = "saveGameState" -> "savePlayer"
    [] OTHER -> "none"

SaveFails(r) ==
  /\ r \in inflight
  /\ NextSave(r) # "none"
  /\ Reply(r, Response(r, 500, "none", FailureMessage(r.op), Null,
                       [failed |-> NextSave(r)]))
  /\ NothingWritten
  /\ UNCHANGED <<now, started, maxInflight, budget, allocVars, growthVars,
                 achVars, nearVars, randVars, chatVars>>

NextFail == Next \/ \E r \in inflight : SaveFails(r)

SpecFail == Init /\ [][NextFail]_vars

(***************************************************************************)
(* SpecRestart: the handlers, one request at a time, in a process that may *)
(* be restarted                                                            *)
(*                                                                         *)
(* claimedPlots and chatMessages are module-level values of the process;   *)
(* nothing in the server fills claimedPlots from the store.  A restart     *)
(* re-runs the module's top level and drops the requests in flight, the    *)
(* store keeps what was written to it.                                     *)
(***************************************************************************)
Restart ==
  /\ claimedPlots # {}
  /\ claimedPlots' = {}
  /\ chatMessages' = <<>>
  /\ inflight' = {}
  /\ UNCHANGED <<storePlayer, storeBiome, storeGameState, now, nextId, resp,
                 started, maxInflight, budget, chatSent, chatRead, allocVars,
                 growthVars, achVars, nearVars, randVars>>

NextRestart == Next \/ Restart

SpecRestart == Init /\ [][NextRestart]_vars

(***************************************************************************)
(* Properties                                                              *)
(***************************************************************************)
Plots(biome) == IF biome = Null THEN <<>> ELSE biome.landPlots
PersistedRoster == IF storeBiome = Null THEN {} ELSE Roster(storeBiome)
Registered == {u \in Usernames : storePlayer[u] # Null /\ storeGameState[u] # Null}
OwnsPersistedPlot(u) ==
  \E i \in 1 .. Len(Plots(storeBiome)) : Plots(storeBiome)[i].ownerId = u
HasTree(gameState, treeId) ==
  \E i \in 1 .. Len(gameState.trees) : gameState.trees[i].id = treeId

\* The grid cell a world point lies in.
CellOf(x, z) == <<(x + WORLD_WIDTH \div 2) \div PLOT_WIDTH,
                  (z + WORLD_HEIGHT \div 2) \div PLOT_HEIGHT>>

\* C1: after any sequence of committed init and buyLand actions no two
\* LandPlots of the world overlap: every grid cell is covered by at most one
\* plot.  Stated in its weakest form: no two plots of the persisted biome have
\* their centres in the same grid cell (two such plots overlap whatever the
\* extent of a footprint is).
C1_OnePlotPerCell ==
  \A i, j \in 1 .. Len(Plots(storeBiome)) :
    i # j => CellOf(Plots(storeBiome)[i].x, Plots(storeBiome)[i].z)
               # CellOf(Plots(storeBiome)[j].x, Plots(storeBiome)[j].z)

ClaimCalls == {i \in 1 .. Len(allocLog) : allocLog[i].fn = "claimPlot"}
SameCell(i, j) == /\ allocLog[i].gridX = allocLog[j].gridX
                  /\ allocLog[i].gridZ = allocLog[j].gridZ

\* C2: in every sequence of claimPlot calls, claimPlot returns true at most
\* once for a cell: once a call for the cell returned true, every later call
\* for that cell returns false.
C2_ClaimTrueAtMostOnce ==
  \A i, j \in ClaimCalls :
    (i < j /\ SameCell(i, j) /\ allocLog[i].ret) => ~allocLog[j].ret

\* C2 witness: a cell claimed with success and then claimed again.
C2_Witness ==
  \E i, j \in ClaimCalls :
    i < j /\ SameCell(i, j) /\ allocLog[i].ret /\ ~allocLog[j].ret

CoinsAgree(gameState) ==
  gameState # Null => gameState.resources.coins = gameState.player.coins

\* C3: with requests handled one at a time, every persisted GameState and
\* every GameState returned in a response has resources.coins = player.coins.
C3_CoinsAgreeSequential ==
  /\ \A u \in Usernames : CoinsAgree(storeGameState[u])
  /\ CoinsAgree(resp.gameState)

\* C3 witness: a purchase was answered and the balance it returned, which is
\* the persisted one, is no longer the starting balance.
C3_Witness ==
  /\ resp.op \in {"buy_land", "buy_seeds"}
  /\ resp.success = "true"
  /\ resp.gameState.player.coins < START_COINS
  /\ storeGameState[resp.user] = resp.gameState

\* C4: resources.coins = player.coins in every persisted GameState, whatever
\* the interleaving of two overlapping requests (suspended only at store calls).
C4_CoinsAgreeOverlapping ==
  \A u \in Usernames :
    storeGameState[u] # Null =>
      storeGameState[u].player.coins = storeGameState[u].resources.coins

\* The roster a player's own init wrote into their GameState.
OwnView(u) == Roster(storeGameState[u].currentBiome)

\* C5: when the inits of two distinct new players overlap (each loaded the
\* biome before the other saved it, so neither player's own copy of the biome
\* lists the other) and both have completed, the canonical biome record holds
\* both players in its roster and both starting plots.
C5_OverlappingInitsBothKept ==
  \A u1, u2 \in Registered :
    (/\ u1 # u2
     /\ inflight = {}
     /\ u1 \notin OwnView(u2)
     /\ u2 \notin OwnView(u1))
    => /\ {u1, u2} \subseteq PersistedRoster
       /\ OwnsPersistedPlot(u1)
       /\ OwnsPersistedPlot(u2)

\* C6: with plantedAt and lastWatered fixed, calculateTreeGrowth never
\* decreases as the clock advances: of two successive reads the later one is
\* at least the earlier one.
C6_GrowthMonotone == gObs # Null => gObs.prev <= gObs.cur

\* C7: a harvestTree request made when the stage recomputed from the tree's
\* timestamps is 5 succeeds: the tree is removed and rewards are credited.
C7_MatureTreeHarvested ==
  (/\ resp.op = "harvest_tree"
   /\ resp.code = 200
   /\ resp.extra.stageNow = MAX_GROWTH_STAGE)
  => /\ resp.extra.rewards.coins > 0
     /\ ~HasTree(resp.gameState, resp.args.treeId)

TreeOf(gameState, treeId) ==
  LET IsTree(t) == t.id = treeId
  IN gameState.trees[FirstIndex(gameState.trees, IsTree)]

\* The handler of r is about to decide a harvest of a tree below stage 5
\* (by the stored field, or by the stage recomputed from the timestamps).
HarvestBelowMax(r) ==
  /\ r.op = "harvest_tree"
  /\ r.pc = "getGameState"
  /\ r.gameState # Null
  /\ HasTree(r.gameState, r.args.treeId)
  /\ \/ TreeOf(r.gameState, r.args.treeId).growthStage < MAX_GROWTH_STAGE
     \/ calculateTreeGrowth(TreeOf(r.gameState, r.args.treeId), now)
          < MAX_GROWTH_STAGE

\* C8: harvestTree on a tree whose growth stage is below 5 is rejected: the
\* handler answers at once with rewards {0, 0, 0} and the GameState it loaded
\* (tree still present, coins, seeds and experience as they were), and writes
\* nothing to the store.
C8_ImmatureHarvestRejected ==
  [][\A r \in inflight :
       (HarvestBelowMax(r) /\ r \notin inflight')
       => /\ inflight' = inflight \ {r}
          /\ resp'.rid = r.rid
          /\ resp'.extra.rewards = NoRewards
          /\ resp'.gameState = r.gameState
          /\ UNCHANGED <<storePlayer, storeBiome, storeGameState>>]_vars

\* C8 witness: a harvest was rejected and the tree it named is still persisted.
C8_Witness ==
  /\ resp.op = "harvest_tree"
  /\ resp.code = 200
  /\ resp.extra.rewards = NoRewards
  /\ HasTree(storeGameState[resp.user], resp.args.treeId)

\* C9: an init of a new player made when no grid cell is available fails
\* with an error response; a failed init leaves no Player or GameState record
\* and nothing in the persisted roster or plot list; a successful init never
\* returns a player without land.
C9_InitFailsWhenFull ==
  resp.op = "init" =>
    /\ (resp.extra.newPlayer /\ ~resp.extra.cellFree) => resp.code = 400
    /\ resp.code = 400 =>
         /\ resp.gameState = Null
         /\ storePlayer[resp.user] = Null
         /\ storeGameState[resp.user] = Null
         /\ resp.user \notin PersistedRoster
         /\ ~OwnsPersistedPlot(resp.user)
    /\ resp.code = 200 => Len(resp.gameState.player.landPlots) >= 1

\* C9 witness: the last free cell is taken, MAX_PLAYERS players hold records,
\* and the init of one more player has just failed.
C9_Witness ==
  /\ resp.op = "init"
  /\ resp.code = 400
  /\ Cardinality(claimedPlots) = MAX_PLAYERS
  /\ Cardinality(Registered) = MAX_PLAYERS

FindCalls == {i \in 1 .. Len(allocLog) : allocLog[i].fn = "findAvailablePlot"}

\* cell a comes no later than cell b in the scan: gridX outer, gridZ inner
ScansBefore(a, b) == a[1] < b[1] \/ (a[1] = b[1] /\ a[2] <= b[2])

FirstUnclaimed(claimed, ret) ==
  /\ ret # Null
  /\ <<ret.gridX, ret.gridZ>> \in Cells \ claimed
  /\ \A c \in Cells \ claimed : ScansBefore(<<ret.gridX, ret.gridZ>>, c)

\* C10 as claimed: findAvailablePlot returns null whenever every cell is
\* claimed or MAX_PLAYERS cells are claimed, and the first unclaimed cell
\* otherwise.
C10_NullAtCap ==
  \A i \in FindCalls :
    IF Cells \subseteq allocLog[i].before
       \/ Cardinality(allocLog[i].before) >= MAX_PLAYERS
    THEN allocLog[i].ret = Null
    ELSE FirstUnclaimed(allocLog[i].before, allocLog[i].ret)

\* C10 amended: findAvailablePlot returns null only when every cell is
\* claimed and otherwise the first unclaimed cell of its scan (gridX outer,
\* gridZ inner), also when MAX_PLAYERS cells are claimed.
C10_FirstUnclaimedCell ==
  \A i \in FindCalls :
    IF Cells \subseteq allocLog[i].before
    THEN allocLog[i].ret = Null
    ELSE FirstUnclaimed(allocLog[i].before, allocLog[i].ret)

\* C10 witness: findAvailablePlot called with MAX_PLAYERS cells claimed, the
\* first cell of the scan among the free ones, returns a cell.
C10_Witness ==
  \E i \in FindCalls :
    /\ Cardinality(allocLog[i].before) = MAX_PLAYERS
    /\ <<0, 0>> \notin allocLog[i].before
    /\ allocLog[i].ret = [gridX |-> 0, gridZ |-> 0]

\* The ValidationFailures of the request whose handler has loaded its
\* GameState and is about to decide, by the message each one is reported with.
ValidationFailures(r) ==
  LET gs == r.gameState
      OwnPlots == {i \in 1 .. Len(gs.currentBiome.landPlots) :
                     LET plot == gs.currentBiome.landPlots[i]
                     IN /\ Abs(plot.x - r.args.x) < PLANT_REACH
                        /\ Abs(plot.z - r.args.z) < PLANT_REACH
                        /\ plot.ownerId = gs.player.id}
      Taken == \E i \in 1 .. Len(gs.currentBiome.landPlots) :
                 LET plot == gs.currentBiome.landPlots[i]
                 IN /\ Abs(plot.x - r.args.x) < LAND_SPACING
                    /\ Abs(plot.z - r.args.z) < LAND_SPACING
  IN CASE r.op = "plant_tree" ->
            {m \in {"You can only plant trees on your own land!"} : OwnPlots = {}}
            \cup {m \in {"This land plot is full!"} :
                    \E i \in OwnPlots :
                      Len(gs.currentBiome.landPlots[i].trees) >= MAX_TREES_PER_PLOT}
            \cup {m \in {"Not enough seeds!"} : gs.resources.seeds <= 0}
       [] r.op = "water_tree" ->
            {m \in {"Not enough water!"} : gs.resources.water <= 0}
       [] r.op = "buy_land" ->
            {m \in {"This land is already owned!"} : Taken}
            \cup {m \in {"Not enough coins!"} : gs.player.coins < LAND_PLOT_COST}
       [] r.op = "buy_seeds" ->
            {m \in {"Not enough coins!"} :
               gs.player.coins < SEED_COST * r.args.quantity}
       [] OTHER -> {}

Deciding(r) == r.pc = "getGameState" /\ r.gameState # Null

\* C11: a plantTree, waterTree, buyLand or buySeeds request with a
\* ValidationFailure (plot not owned, plot full, no seeds; no water; land
\* already claimed, insufficient coins; insufficient coins) is answered with
\* {success: false, message} naming one of its failures, and the step that
\* answers it writes nothing: the Player, Biome and GameState records stay
\* exactly as they were.
C11_ValidationFailureWritesNothing ==
  [][\A r \in inflight :
       (Deciding(r) /\ ValidationFailures(r) # {} /\ r \notin inflight')
       => /\ inflight' = inflight \ {r}
          /\ resp'.rid = r.rid
          /\ resp'.code = 200
          /\ resp'.success = "false"
          /\ resp'.message \in ValidationFailures(r)
          /\ resp'.gameState = r.gameState
          /\ UNCHANGED <<storePlayer, storeBiome, storeGameState>>]_vars

\* C11 witness: a plantTree on a plot with room was refused for want of
\* seeds, and the persisted GameState is the one the handler loaded.
C11_Witness ==
  /\ resp.op = "plant_tree"
  /\ resp.success = "false"
  /\ resp.message = "Not enough seeds!"
  /\ storeGameState[resp.user] = resp.gameState

PlayerActions == {"move_player", "plant_tree", "water_tree", "harvest_tree",
                  "buy_seeds", "buy_land"}

\* C12: every modified record is persisted: once a successful move,
\* plantTree, waterTree, harvestTree, buySeeds or buyLand has been answered,
\* the persisted Player record equals the player embedded in the persisted
\* GameState record.
C12_PlayerRecordPersisted ==
  (/\ inflight = {}
   /\ resp.op \in PlayerActions
   /\ resp.success = "true")
  => storePlayer[resp.user] = storeGameState[resp.user].player

\* C13: with requests handled one at a time, the experience in the
\* gameState.player returned to a player is never negative and never
\* decreases from one response to that player's next response.
C13_ExperienceMonotone ==
  [][(/\ resp' # resp
      /\ resp'.gameState # Null)
     => /\ resp'.gameState.player.experience >= 0
        /\ (resp.gameState # Null /\ resp.user = resp'.user)
           => resp'.gameState.player.experience
                >= resp.gameState.player.experience]_vars

SeqRange(seq) == {seq[i] : i \in 1 .. Len(seq)}

\* Every copy of a LandPlot and of a Player that the store holds.
PersistedPlots ==
  SeqRange(Plots(storeBiome))
    \cup UNION {SeqRange(storeGameState[u].currentBiome.landPlots) :
                  u \in {v \in Usernames : storeGameState[v] # Null}}
PersistedPlayers ==
  {storePlayer[u] : u \in {v \in Usernames : storePlayer[v] # Null}}
    \cup {storeGameState[u].player :
            u \in {v \in Usernames : storeGameState[v] # Null}}
    \cup UNION {SeqRange(storeGameState[u].currentBiome.players) :
                  u \in {v \in Usernames : storeGameState[v] # Null}}
    \cup (IF storeBiome = Null THEN {} ELSE SeqRange(storeBiome.players))

OwnersAgree ==
  \A p \in PersistedPlayers, plot \in PersistedPlots :
    plot.id \in SeqRange(p.landPlots) => plot.ownerId = p.id

\* C14: after every step, every persisted LandPlot that a persisted player's
\* landPlots list references has that player as ownerId, and the ownerId of a
\* plot is the same in every copy persisted before and after the step (it
\* never changes once the plot is created).
C14_PlotOwnerFixed ==
  [][/\ OwnersAgree'
     /\ \A plot \in PersistedPlots, later \in PersistedPlots' :
          plot.id = later.id => plot.ownerId = later.ownerId]_vars

\* C14 witness: the canonical biome holds a starting plot of one player and
\* the starting and a purchased plot of another, each referenced by its
\* owner's Player record.
C14_Witness ==
  /\ Len(Plots(storeBiome)) >= 3
  /\ \E u1, u2 \in Usernames :
       /\ u1 # u2
       /\ storePlayer[u1] # Null /\ Len(storePlayer[u1].landPlots) >= 2
       /\ storePlayer[u2] # Null /\ Len(storePlayer[u2].landPlots) >= 1
       /\ \A u \in {u1, u2} : \A id \in SeqRange(storePlayer[u].landPlots) :
            \E plot \in SeqRange(Plots(storeBiome)) :
              plot.id = id /\ plot.ownerId = u

PlotsBounded ==
  \A plot \in PersistedPlots : Len(plot.trees) <= MAX_TREES_PER_PLOT

\* C15: whether requests overlap or not, after every step the trees list of
\* every persisted LandPlot has at most MAX_TREES_PER_PLOT entries, and a
\* plantTree aimed at an own plot that already holds MAX_TREES_PER_PLOT tree
\* ids is refused with 'This land plot is full!'.
C15_PlotCapacity ==
  [][/\ PlotsBounded'
     /\ \A r \in inflight :
          (/\ Deciding(r)
           /\ r.op = "plant_tree"
           /\ "This land plot is full!" \in ValidationFailures(r)
           /\ r \notin inflight')
          => /\ resp'.rid = r.rid
             /\ resp'.success = "false"
             /\ resp'.message = "This land plot is full!"]_vars

\* C15 witness: two overlapping plantTree requests found four trees on the
\* plot; both were answered, the persisted plot holds five tree ids, and
\* the later answer was a success.
C15_Witness ==
  /\ started = MaxLateRequests
  /\ inflight = {}
  /\ resp.op = "plant_tree"
  /\ resp.success = "true"
  /\ nextId = MAX_TREES_PER_PLOT + 3
  /\ \E plot \in SeqRange(Plots(storeBiome)) :
       Len(plot.trees) = MAX_TREES_PER_PLOT

(***************************************************************************)
(* C16: checkAchievements never returns an achievement whose id the player *)
(* already holds; the handlers append what it returns, so the achievements *)
(* list never holds one id twice and stays in unlock order.                *)
(***************************************************************************)
AchIds(list) == {list[i].id : i \in 1 .. Len(list)}

C16_AchievementsUniqueInOrder ==
  /\ \A i, j \in 1 .. Len(aPlayer.achievements) :
       i < j => /\ aPlayer.achievements[i].id # aPlayer.achievements[j].id
                /\ aPlayer.achievements[i].unlockedAt
                     <= aPlayer.achievements[j].unlockedAt
  /\ aLast # Null =>
       /\ AchIds(aLast.ret) \cap AchIds(aLast.player.achievements) = {}
       /\ aPlayer.achievements = aLast.player.achievements \o aLast.ret

\* A player holding first_tree plants again and meets the tree_master
\* threshold: the evaluation had a held id to skip and a new one to return.
C16_Witness ==
  /\ aLast # Null
  /\ aLast.action = "plant_tree"
  /\ "first_tree" \in AchIds(aLast.player.achievements)
  /\ AchIds(aLast.ret) = {"tree_master"}
  /\ Len(aPlayer.achievements) >= 3
  /\ aPlayer.achievements[1].unlockedAt < aLast.ret[1].unlockedAt

(***************************************************************************)
(* C17: checkAchievements called twice in a row with the same player,      *)
(* action and count returns an empty list the second time.                 *)
(***************************************************************************)
C17_SecondCallEmpty ==
  aLast # Null => aLast.again = <<>>

(***************************************************************************)
(* C18: a successful water-tree at time now leaves the tree with           *)
(* lastWatered = now and health = min(100, health(tree, now) + 20), where  *)
(* health(tree, now) is the decay function calculateTreeHealth evaluated   *)
(* just before the watering; water goes down by 1 and experience up by 5.  *)
(* Health is compared in units of 1/HealthUnit point.                      *)
(***************************************************************************)
WateredTree(gameState, id) ==
  LET IsTree(t) == t.id = id
  IN gameState.trees[FirstIndex(gameState.trees, IsTree)]

C18_WateringBumpsDecayedHealth ==
  (resp.op = "water_tree" /\ resp.success = "true") =>
    LET before == resp.extra.watered
        tree == WateredTree(resp.gameState, before.id)
    IN /\ tree.lastWatered = resp.extra.at
       /\ tree.health * HealthUnit
            = Min(100 * HealthUnit,
                  calculateTreeHealth(before, resp.extra.at)
                    + WATER_HEALTH_BONUS * HealthUnit)
       /\ resp.gameState.resources.water = resp.extra.water - 1
       /\ resp.gameState.player.experience = resp.extra.experience + 5

\* The parts of C18 that do not involve the decay function.
C18_LastWateredWaterExperience ==
  (resp.op = "water_tree" /\ resp.success = "true") =>
    LET before == resp.extra.watered
        tree == WateredTree(resp.gameState, before.id)
    IN /\ tree.lastWatered = resp.extra.at
       /\ tree.health = Min(100, before.health + WATER_HEALTH_BONUS)
       /\ resp.gameState.resources.water = resp.extra.water - 1
       /\ resp.gameState.player.experience = resp.extra.experience + 5

(***************************************************************************)
(* C19: calculateTreeGrowth = min(5, floor((now - plantedAt) * bonus /     *)
(* GROWTH_TIME)), bonus 1.5 when now - lastWatered < 60000 ms and 1        *)
(* otherwise, for plantedAt <= now; a tree planted and watered at 0 and    *)
(* read at GROWTH_TIME is at stage 1.  The floor is stated by its bounds:  *)
(* s = floor(n / d) iff s * d <= n < (s + 1) * d, with n / d = 3e / 2G     *)
(* under the bonus and e / G without it.                                   *)
(***************************************************************************)
IsCappedFloor(s, n, d) ==
  \/ s = 5 /\ n >= 5 * d
  \/ s \in 0 .. 4 /\ s * d <= n /\ n < (s + 1) * d

C19_GrowthFormula ==
  gObs # Null =>
    LET elapsed == gObs.curAt - gTree.plantedAt
    IN /\ gTree.plantedAt <= gObs.curAt
       /\ IF gObs.curAt - gTree.lastWatered < 60000
          THEN IsCappedFloor(gObs.cur, 3 * elapsed, 2 * GROWTH_TIME)
          ELSE IsCappedFloor(gObs.cur, elapsed, GROWTH_TIME)
       /\ (gTree.plantedAt = 0 /\ gTree.lastWatered = 0
             /\ gObs.curAt = GROWTH_TIME) => gObs.cur = 1

\* The scenario of the claim, read after the clock has advanced.
C19_Witness ==
  /\ gObs # Null
  /\ gTree = [plantedAt |-> 0, lastWatered |-> 0]
  /\ gObs.prevAt < gObs.curAt
  /\ gObs.curAt = GROWTH_TIME
  /\ gObs.cur = 1

(***************************************************************************)
(* C20: whenever now - lastWatered < 60000 ms, the stage computed with the *)
(* 1.5 water bonus is at least the stage computed for the same plantedAt   *)
(* and now without the bonus.                                              *)
(***************************************************************************)
StageWithoutBonus(tree, t) ==
  Min((t - tree.plantedAt) \div GROWTH_TIME, MAX_GROWTH_STAGE)

C20_BonusNeverLowersStage ==
  (gObs # Null /\ gObs.curAt - gTree.lastWatered < 60000) =>
    gObs.cur >= StageWithoutBonus(gTree, gObs.curAt)

\* A read inside the window where the bonus makes a difference.
C20_Witness ==
  /\ gObs # Null
  /\ gObs.prevAt < gObs.curAt
  /\ gObs.curAt - gTree.lastWatered < 60000
  /\ gObs.cur > StageWithoutBonus(gTree, gObs.curAt)
  /\ StageWithoutBonus(gTree, gObs.curAt) > 0

(***************************************************************************)
(* C21: getNearbyPlayers(p, biome, r) returns exactly the roster players q *)
(* with q.id # p.id whose distance to p in the x/z plane (y ignored) is at *)
(* most r, in roster order: never p itself, a player at distance exactly r *)
(* is included, a player farther than r is not.                            *)
(***************************************************************************)
DistanceSquared(a, b) ==
  (a.x - b.x) * (a.x - b.x) + (a.z - b.z) * (a.z - b.z)

\* The roster indices the claim wants returned.
NearbyIndices(call) ==
  {i \in 1 .. Len(call.roster) :
     /\ call.roster[i].id # call.player.id
     /\ DistanceSquared(call.roster[i].position, call.player.position)
          <= call.radius * call.radius}

C21_NearbyExactlyWithinRadius ==
  nearCall # Null =>
    LET idx == NearbyIndices(nearCall)
        Rank(i) == Cardinality({j \in idx : j <= i})
    IN /\ Len(nearCall.ret) = Cardinality(idx)
       /\ \A i \in idx : nearCall.ret[Rank(i)] = nearCall.roster[i]

\* The roster holds a player at distance exactly r and, behind it, a copy
\* of the asking player; one is returned, the other is not.
C21_Witness ==
  /\ nearCall # Null
  /\ nearCall.radius = 5
  /\ Len(nearCall.roster) = 2
  /\ nearCall.roster[1].id # nearCall.player.id
  /\ DistanceSquared(nearCall.roster[1].position, nearCall.player.position) = 25
  /\ nearCall.roster[1].position.y # nearCall.player.position.y
  /\ nearCall.roster[2].id = nearCall.player.id
  /\ nearCall.ret = <<nearCall.roster[1]>>

(***************************************************************************)
(* C22: a successful buy-land takes exactly 100 coins, adds exactly one    *)
(* plot to the player's landPlots, the new plot being owned by the player  *)
(* and priced 100, and unlocks landowner exactly when the player then owns *)
(* at least 5 plots and did not hold it; a player with 200 coins ends with *)
(* 100 and without landowner.                                              *)
(***************************************************************************)
C22_BuyLandEffect ==
  (resp.op = "buy_land" /\ resp.success = "true") =>
    LET was == resp.extra.was
        player == resp.gameState.player
        landPlot == resp.extra.landPlot
        unlocked == "landowner" \in AchIds(resp.extra.achievements)
    IN /\ was.coins >= 100
       /\ player.coins = was.coins - 100
       /\ resp.gameState.resources.coins = player.coins
       /\ player.landPlots = Append(was.landPlots, landPlot.id)
       /\ landPlot.id \notin SeqRange(was.landPlots)
       /\ landPlot.ownerId = player.id
       /\ landPlot.price = 100
       /\ landPlot \in SeqRange(resp.gameState.currentBiome.landPlots)
       /\ unlocked <=> (/\ Len(player.landPlots) >= 5
                        /\ "landowner" \notin AchIds(was.achievements))
       /\ was.coins = 200 => (player.coins = 100 /\ ~unlocked)

\* The fifth plot is bought and landowner is unlocked by it.
C22_Witness ==
  /\ resp.op = "buy_land"
  /\ resp.success = "true"
  /\ Len(resp.gameState.player.landPlots) = 5
  /\ AchIds(resp.extra.achievements) = {"landowner"}
  /\ storePlayer[resp.user] = resp.gameState.player

(***************************************************************************)
(* C23: buy-seeds with coins < SEED_COST * quantity answers success: false *)
(* and leaves coins, seeds, water and fertilizer as they were, in the      *)
(* state it returns and in the persisted state.                            *)
(***************************************************************************)
\* A buy-seeds request whose loaded balance does not cover the price.
SeedsUnaffordable(r) ==
  /\ r.op = "buy_seeds"
  /\ r.pc = "getGameState"
  /\ r.gameState # Null
  /\ r.gameState.player.coins < SEED_COST * r.args.quantity

C23_UnaffordableSeedsChangeNothing ==
  [][\A r \in inflight :
       (SeedsUnaffordable(r) /\ r \notin inflight')
       => /\ resp'.op = "buy_seeds"
          /\ resp'.success = "false"
          /\ resp'.gameState.resources = storeGameState[r.user].resources
          /\ resp'.gameState.player.coins = storeGameState[r.user].player.coins
          /\ storeGameState' = storeGameState
          /\ storePlayer' = storePlayer
          /\ storeBiome' = storeBiome]_vars

\* 21 seeds were asked for with the starting balance and refused.
C23_Witness ==
  /\ resp.op = "buy_seeds"
  /\ resp.success = "false"
  /\ resp.message = "Not enough coins!"
  /\ resp.gameState.player.coins < SEED_COST * resp.args.quantity
  /\ resp.gameState.resources =
       [seeds |-> START_SEEDS, water |-> START_WATER, fertilizer |-> 0,
        coins |-> START_COINS]
  /\ storeGameState[resp.user] = resp.gameState

(***************************************************************************)
(* C24: an unknown reference (game-state key in any action, tree id in     *)
(* water-tree, tree id in harvest-tree, player in send-chat-message) is    *)
(* answered with a NotFound outcome, never with the {success: false,       *)
(* message} shape of a validation failure.                                 *)
(***************************************************************************)
UnknownReferenceMessages ==
  {"Game state not found", "Tree not found!", "Player not found"}

C24_UnknownReferenceIsNotFound ==
  resp.message \in UnknownReferenceMessages =>
    (resp.code = 404 /\ resp.success = "none")

(***************************************************************************)
(* C25: after any sequence of addChatMessage calls, overlapping            *)
(* send-chat-message requests included, the buffer holds at most 100       *)
(* messages and is exactly the most recent min(n, 100) of the n accepted   *)
(* messages, in append order: only the oldest are evicted.                 *)
(***************************************************************************)
LastOf(seq, n) == SubSeq(seq, Len(seq) - n + 1, Len(seq))

C25_ChatBufferIsRecentWindow ==
  /\ Len(chatMessages) <= 100
  /\ chatMessages = LastOf(chatSent, Min(Len(chatSent), 100))

\* Two overlapping requests have both appended; the second append took the
\* buffer over the cap and the oldest message was evicted.
C25_Witness ==
  /\ Cardinality({r \in inflight : r.op = "send_chat" /\ r.pc = "addChatMessage"}) = 2
  /\ Len(chatSent) = 101
  /\ Len(chatMessages) = 100
  /\ chatMessages[1].id = 2
  /\ chatMessages[100].id = 101

(***************************************************************************)
(* C26: for every integer limit >= 0, 0 and limits beyond the buffer       *)
(* length included, getRecentChatMessages(limit) returns exactly the last  *)
(* min(limit, length) messages in chronological order, never more than     *)
(* limit messages.                                                         *)
(***************************************************************************)
C26_RecentReturnsLastLimit ==
  (chatRead # Null /\ chatRead.limit >= 0) =>
    /\ chatRead.ret = LastOf(chatRead.buffer,
                             Min(chatRead.limit, Len(chatRead.buffer)))
    /\ Len(chatRead.ret) <= chatRead.limit

\* C26 for the limits the endpoint can pass (limit >= 1).
C26_RecentReturnsLastLimitPositive ==
  (chatRead # Null /\ chatRead.limit >= 1) =>
    /\ chatRead.ret = LastOf(chatRead.buffer,
                             Min(chatRead.limit, Len(chatRead.buffer)))
    /\ Len(chatRead.ret) <= chatRead.limit

(***************************************************************************)
(* C27: last write wins, record by record.  When two plant-tree requests   *)
(* of one player have both loaded the GameState before either saved, both  *)
(* are answered with success, and each save replaces the persisted         *)
(* GameState by exactly the saver's record: what it loaded plus its one    *)
(* new tree, seeds decremented once.  The record persisted in the end is   *)
(* the one saved last; the other request's tree is not in it and no        *)
(* persisted record mixes fields of the two.                               *)
(***************************************************************************)
Saved(r) == r.pc \in {"saveGameState", "savePlayer", "saveBiome"}

\* r2 has saved a record built on the GameState that r has loaded.
LoadedSameBase(r, r2) ==
  /\ r2 # r
  /\ r2.op = "plant_tree"
  /\ r2.user = r.user
  /\ Saved(r2)
  /\ Len(r2.gameState.trees) = Len(r.gameState.trees) + 1
  /\ SubSeq(r2.gameState.trees, 1, Len(r.gameState.trees)) = r.gameState.trees

\* The Player, Biome and GameState records a request carries.
RecordsOf(w) ==
  {w.player, w.biome, w.gameState}
    \cup (IF w.gameState = Null THEN {}
          ELSE {w.gameState.player, w.gameState.currentBiome})

\* Whatever record this step changes in the store is, whole, a record that
\* one request carries.
WholeRecordWrites ==
  LET Carried == UNION {RecordsOf(w) : w \in inflight'}
  IN /\ \A u \in Usernames :
          /\ storeGameState'[u] # storeGameState[u] => storeGameState'[u] \in Carried
          /\ storePlayer'[u] # storePlayer[u] => storePlayer'[u] \in Carried
     /\ storeBiome' # storeBiome => storeBiome' \in Carried

C27_LastWriteWins ==
  [][/\ WholeRecordWrites
     /\ \A r \in inflight :
       r.op = "plant_tree" =>
         /\ (Deciding(r) /\ ValidationFailures(r) = {} /\ r \notin inflight')
            => \E w \in inflight' :
                 /\ w.rid = r.rid
                 /\ Saved(w)
                 /\ storeGameState'[r.user] = w.gameState
                 /\ Len(w.gameState.trees) = Len(r.gameState.trees) + 1
                 /\ SubSeq(w.gameState.trees, 1, Len(r.gameState.trees))
                      = r.gameState.trees
                 /\ w.gameState.resources.seeds = r.gameState.resources.seeds - 1
                 /\ \A r2 \in inflight :
                      LoadedSameBase(r, r2) =>
                        /\ storeGameState[r.user] = r2.gameState
                        /\ \A k \in 1 .. Len(w.gameState.trees) :
                             w.gameState.trees[k].id
                               # r2.gameState.trees[Len(r2.gameState.trees)].id
         /\ (Saved(r) /\ \A w \in inflight' : w.rid # r.rid)
            => /\ resp'.rid = r.rid
               /\ resp'.success = "true"
               /\ resp'.gameState = r.gameState]_vars

\* Two plant-tree requests of player 1 overlapped in a world with no tree:
\* two trees were generated, both requests are answered, and the persisted
\* GameState holds one of them, with one seed spent.
C27_Witness ==
  /\ inflight = {}
  /\ started = MaxConcRequests
  /\ nextId = 4
  /\ resp.op = "plant_tree"
  /\ resp.success = "true"
  /\ Len(storeGameState[1].currentBiome.landPlots) = 1
  /\ Len(storeGameState[1].trees) = 1
  /\ storeGameState[1].trees[1].id \in {2, 3}
  /\ storeGameState[1].resources.seeds = START_SEEDS - 1

(***************************************************************************)
(* C28: with requests handled strictly one after another, the canonical    *)
(* biome record only grows: every LandPlot and every roster entry once     *)
(* persisted is still there after any later action of any player, and an   *)
(* action of one player never changes another player's position.           *)
(***************************************************************************)
C28_CanonicalBiomeOnlyGrows ==
  [][storeBiome # Null =>
       /\ storeBiome' # Null
       /\ \A plot \in SeqRange(storeBiome.landPlots) :
            \E kept \in SeqRange(storeBiome'.landPlots) : kept.id = plot.id
       /\ \A q \in SeqRange(storeBiome.players) :
            \E kept \in SeqRange(storeBiome'.players) :
              /\ kept.id = q.id
              /\ (\A r \in inflight : r.user # q.id)
                 => kept.position = q.position]_vars

(***************************************************************************)
(* C29: within one process, however the inits of distinct new players      *)
(* interleave, no two players are given the same grid cell, and an init    *)
(* fails at claimPlot only when the player cap has been reached:           *)
(* findAvailablePlot and claimPlot run in one step of allocateStartingLand. *)
(***************************************************************************)
StartingPlots == {plot \in PersistedPlots : plot.price = 0}

C29_DistinctCellsForDistinctPlayers ==
  /\ \A p1, p2 \in StartingPlots :
       p1.ownerId # p2.ownerId => CellOf(p1.x, p1.z) # CellOf(p2.x, p2.z)
  /\ \A plot \in StartingPlots :
       plotKey(CellOf(plot.x, plot.z)[1], CellOf(plot.x, plot.z)[2]) \in claimedPlots
  /\ (resp.op = "init" /\ resp.code = 400) =>
       /\ resp.message = "Failed to claim plot"
       /\ Cardinality(claimedPlots) >= MAX_PLAYERS

\* The inits of two distinct new players overlapped (neither player's copy
\* of the biome lists the other), both are answered, and the two hold
\* starting plots in different cells.
C29_Witness ==
  /\ inflight = {}
  /\ Cardinality(claimedPlots) = 2
  /\ \E u1, u2 \in Registered :
       /\ u1 # u2
       /\ u1 \notin OwnView(u2)
       /\ u2 \notin OwnView(u1)
       /\ \E p1, p2 \in StartingPlots :
            /\ p1.ownerId = u1
            /\ p2.ownerId = u2
            /\ CellOf(p1.x, p1.z) # CellOf(p2.x, p2.z)

(***************************************************************************)
(* C30: however init requests interleave, two overlapping inits for one    *)
(* new username included, each player ends with exactly one starting plot  *)
(* (price 0) in the world and exactly one grid cell claimed on their       *)
(* behalf.  Stated in its weakest form: once every request is answered,    *)
(* the persisted biome holds at most one starting plot per player and no   *)
(* more cells are claimed than there are players.                          *)
(***************************************************************************)
StartingPlotsOf(u) ==
  {i \in 1 .. Len(Plots(storeBiome)) :
     Plots(storeBiome)[i].ownerId = u /\ Plots(storeBiome)[i].price = 0}

C30_OneStartingPlotPerPlayer ==
  inflight = {} =>
    /\ \A u \in Usernames : Cardinality(StartingPlotsOf(u)) <= 1
    /\ Cardinality(claimedPlots)
         <= Cardinality({u \in Usernames : storePlayer[u] # Null})

(***************************************************************************)
(* C31: the claimed-cell set agrees with the persisted world, also after a *)
(* process restart (memory re-initialised, store retained): every starting *)
(* plot of the persisted biome lies in a claimed cell, so that an init for *)
(* a new player is never given a cell whose plot already exists in the     *)
(* persisted biome.  Stated in its weakest form, the consequence alone: no *)
(* two starting plots of different owners in the persisted biome lie in    *)
(* the same grid cell.                                                     *)
(***************************************************************************)
C31_RestartKeepsCellsApart ==
  \A p1, p2 \in StartingPlots :
    p1.ownerId # p2.ownerId => CellOf(p1.x, p1.z) # CellOf(p2.x, p2.z)

(***************************************************************************)
(* C32: capacity is enforced by the allocator.  After any sequence of init *)
(* calls in one process the number of claimed cells never exceeds          *)
(* MAX_PLAYERS and the roster of the canonical biome never holds more than *)
(* biome.maxPlayers (= MAX_PLAYERS) players; the init of a new player that *)
(* reaches allocateStartingLand when MAX_PLAYERS cells are claimed is      *)
(* answered with an error and writes nothing: nobody is registered.        *)
(***************************************************************************)
RosterSize(biome) == IF biome = Null THEN 0 ELSE Len(biome.players)

AtAllocation(r) ==
  /\ r.op = "init"
  /\ r.player = Null
  /\ \/ r.pc = "getBiome" /\ r.biome # Null
     \/ r.pc = "saveDefaultBiome"

C32_CapacityEnforced ==
  [][/\ Cardinality(claimedPlots') <= MAX_PLAYERS
     /\ RosterSize(storeBiome') <= MAX_PLAYERS
     /\ \A r \in inflight :
          (/\ AtAllocation(r)
           /\ Cardinality(claimedPlots) >= MAX_PLAYERS
           /\ r \notin inflight')
          => /\ inflight' = inflight \ {r}
             /\ resp'.rid = r.rid
             /\ resp'.code = 400
             /\ UNCHANGED <<claimedPlots, storePlayer, storeBiome,
                            storeGameState>>]_vars

\* C32 witness: MAX_PLAYERS cells are claimed, the canonical roster holds
\* MAX_PLAYERS players, and the init of one more new player has just been
\* refused, leaving no record of that player.
C32_Witness ==
  /\ resp.op = "init"
  /\ resp.code = 400
  /\ resp.extra.newPlayer
  /\ Cardinality(claimedPlots) = MAX_PLAYERS
  /\ RosterSize(storeBiome) = MAX_PLAYERS
  /\ storePlayer[resp.user] = Null
  /\ resp.user \notin PersistedRoster

(***************************************************************************)
(* C33: a successful harvestTree removes the tree from the world entirely: *)
(* afterwards its id appears neither in gameState.trees nor in the trees   *)
(* list of any LandPlot, so that every id listed on a plot names an        *)
(* existing tree and the slot is free for a new plantTree.  Stated for the *)
(* GameState that the successful harvest returns (the one it persisted).   *)
(***************************************************************************)
ListedOnAPlot(gameState, treeId) ==
  \E plot \in SeqRange(gameState.currentBiome.landPlots) :
    treeId \in SeqRange(plot.trees)

C33_HarvestRemovesTreeEverywhere ==
  (resp.op = "harvest_tree" /\ resp.success = "true") =>
    /\ ~HasTree(resp.gameState, resp.args.treeId)
    /\ ~ListedOnAPlot(resp.gameState, resp.args.treeId)

(***************************************************************************)
(* C34: plantTree succeeds only if (x, z) lies within the footprint of a   *)
(* LandPlot owned by the requesting player, that plot holds fewer than     *)
(* MAX_TREES_PER_PLOT trees and seeds > 0.  Its effect on the GameState is *)
(* exactly: one new tree (growthStage 0, health 100, ownerId = player,     *)
(* plantedAt = lastWatered = now) appended to gameState.trees, its id      *)
(* appended to that plot's trees, seeds - 1, experience + 10, plus the     *)
(* newly unlocked achievements; coins, water and the other plots are       *)
(* unchanged.  The GameState so changed is the one persisted, and a        *)
(* request that does not succeed is answered without a write.              *)
(***************************************************************************)
\* The footprint of a plot: PLOT_WIDTH x PLOT_HEIGHT around its centre.
InFootprint(plot, x, z) ==
  /\ 2 * Abs(plot.x - x) <= PLOT_WIDTH
  /\ 2 * Abs(plot.z - z) <= PLOT_HEIGHT

PlantDeciding(r) ==
  r.op = "plant_tree" /\ r.pc = "getGameState" /\ r.gameState # Null

PlantedExactly(r, w) ==
  LET before == r.gameState
      after == w.gameState
      n == Len(before.trees)
      plots == before.currentBiome.landPlots
  IN /\ before.resources.seeds > 0
     /\ Len(after.trees) = n + 1
     /\ SubSeq(after.trees, 1, n) = before.trees
     /\ after.trees[n + 1].type = r.args.treeType
     /\ after.trees[n + 1].x = r.args.x
     /\ after.trees[n + 1].z = r.args.z
     /\ after.trees[n + 1].growthStage = 0
     /\ after.trees[n + 1].health = 100
     /\ after.trees[n + 1].ownerId = r.user
     /\ after.trees[n + 1].plantedAt = now
     /\ after.trees[n + 1].lastWatered = now
     /\ \A i \in 1 .. n : before.trees[i].id # after.trees[n + 1].id
     /\ Len(after.currentBiome.landPlots) = Len(plots)
     /\ \E li \in 1 .. Len(plots) :
          /\ plots[li].ownerId = r.user
          /\ InFootprint(plots[li], r.args.x, r.args.z)
          /\ Len(plots[li].trees) < MAX_TREES_PER_PLOT
          /\ after.currentBiome.landPlots =
               [plots EXCEPT ![li].trees = Append(@, after.trees[n + 1].id)]
     /\ after.currentBiome.players = before.currentBiome.players
     /\ after.resources = [before.resources EXCEPT !.seeds = @ - 1]
     /\ after.player =
          [before.player EXCEPT !.experience = @ + 10,
                                !.achievements = @ \o w.out.achievements]
     /\ \A a \in SeqRange(w.out.achievements) :
          ~HasAchievement(before.player, a.id)

C34_PlantTreeEffect ==
  [][\A r \in inflight :
       (PlantDeciding(r) /\ r \notin inflight')
       => \/ /\ inflight' = inflight \ {r}
             /\ resp'.rid = r.rid
             /\ resp'.success = "false"
             /\ resp'.gameState = r.gameState
             /\ UNCHANGED <<storePlayer, storeBiome, storeGameState>>
          \/ \E w \in inflight' :
               /\ w.rid = r.rid
               /\ w.pc = "saveGameState"
               /\ PlantedExactly(r, w)
               /\ storeGameState' =
                    [storeGameState EXCEPT ![r.user] = w.gameState]]_vars

\* C34 witness: a plant-tree on the player's own plot has been answered
\* with success; the tree is persisted, listed on the plot, and a seed is
\* gone.
C34_Witness ==
  /\ resp.op = "plant_tree"
  /\ resp.success = "true"
  /\ storeGameState[resp.user] = resp.gameState
  /\ Len(resp.gameState.trees) = 1
  /\ resp.gameState.resources.seeds = START_SEEDS - 1
  /\ resp.gameState.player.experience = 10
  /\ ListedOnAPlot(resp.gameState, resp.gameState.trees[1].id)

(***************************************************************************)
(* C35: for all in-range grid cells, the footprints getPlotWorldCoordinates *)
(* gives to distinct cells do not overlap, every footprint lies inside the *)
(* world rectangle [-WORLD_WIDTH/2, WORLD_WIDTH/2] x                       *)
(* [-WORLD_HEIGHT/2, WORLD_HEIGHT/2], and the centre lies inside its own   *)
(* footprint; whenever a cell is claimed, the new player's starting        *)
(* LandPlot (x, z) and spawn position are the centre of that cell.         *)
(***************************************************************************)
FootprintsApart(a, b) ==
  \/ a.endX <= b.startX
  \/ b.endX <= a.startX
  \/ a.endZ <= b.startZ
  \/ b.endZ <= a.startZ

InsideWorld(w) ==
  /\ 0 - WORLD_WIDTH <= 2 * w.startX
  /\ w.startX < w.endX
  /\ 2 * w.endX <= WORLD_WIDTH
  /\ 0 - WORLD_HEIGHT <= 2 * w.startZ
  /\ w.startZ < w.endZ
  /\ 2 * w.endZ <= WORLD_HEIGHT

CentreInside(w) ==
  /\ w.startX < w.centerX
  /\ w.centerX < w.endX
  /\ w.startZ < w.centerZ
  /\ w.centerZ < w.endZ

GridGeometry ==
  \A c1, c2 \in Cells :
    LET w1 == getPlotWorldCoordinates(c1[1], c1[2])
        w2 == getPlotWorldCoordinates(c2[1], c2[2])
    IN /\ InsideWorld(w1)
       /\ CentreInside(w1)
       /\ c1 # c2 => FootprintsApart(w1, w2)

C35_CellGeometryAndSpawn ==
  [][/\ GridGeometry
     /\ claimedPlots' # claimedPlots =>
          \E cell \in Cells \ claimedPlots :
            LET w == getPlotWorldCoordinates(cell[1], cell[2]) IN
            /\ claimedPlots' = claimedPlots \cup {plotKey(cell[1], cell[2])}
            /\ \E q \in inflight' :
                 LET plot == q.biome.landPlots[Len(q.biome.landPlots)] IN
                 /\ q.op = "init"
                 /\ q.pc = "savePlayerNew"
                 /\ q.player.position = [x |-> w.centerX, y |-> 0, z |-> w.centerZ]
                 /\ plot.x = w.centerX
                 /\ plot.z = w.centerZ
                 /\ plot.ownerId = q.user
                 /\ plot.price = 0
                 /\ q.player.landPlots = <<plot.id>>
                 /\ storePlayer'[q.user] = q.player]_vars

\* C35 witness: the init of a second new player has been answered; the
\* player stands at the centre of the second cell of the scan, where their
\* starting plot lies, and that cell is claimed.
C35_Witness ==
  LET w == getPlotWorldCoordinates(0, 1) IN
  /\ resp.op = "init"
  /\ resp.code = 200
  /\ resp.extra.newPlayer
  /\ plotKey(0, 1) \in claimedPlots
  /\ resp.gameState.player.position = [x |-> w.centerX, y |-> 0, z |-> w.centerZ]
  /\ \E plot \in SeqRange(resp.gameState.currentBiome.landPlots) :
       /\ plot.ownerId = resp.user
       /\ plot.price = 0
       /\ plot.x = w.centerX
       /\ plot.z = w.centerZ

(***************************************************************************)
(* C36: on a store failure during an action there is no partial commit:    *)
(* either every record the action touched is persisted, or the caller gets *)
(* a failure response and none of them has been changed.  Stated in its    *)
(* weakest form for the actions whose mutation always changes the          *)
(* GameState (plant-tree, buy-land, harvest-tree, buy-seeds), requests     *)
(* handled one at a time: when such a request is answered with a failure,  *)
(* the GameState it produced is not in the store.                          *)
(***************************************************************************)
AlwaysChanging == {"plant_tree", "buy_land", "harvest_tree", "buy_seeds"}

C36_NoPartialCommit ==
  [][\A r \in inflight :
       (/\ r.op \in AlwaysChanging
        /\ r \notin inflight'
        /\ resp'.rid = r.rid
        /\ resp'.code = 500)
       => storeGameState'[r.user] # r.gameState]_vars

(***************************************************************************)
(* C37: the proximity query reads the canonical roster: once player B's    *)
(* move or registration has been committed, the next nearbyPlayers query   *)
(* of another player A measures against B's position as the canonical      *)
(* biome holds it, without an init of A in between.  With requests handled *)
(* one at a time: the players a query returns are those the canonical      *)
(* roster places within NEARBY_RADIUS of the asking player.                *)
(***************************************************************************)
C37_NearbyReadsCanonicalRoster ==
  [][\A r \in inflight :
       (/\ r.op = "nearby_players"
        /\ r.gameState # Null
        /\ r \notin inflight')
       => /\ resp'.rid = r.rid
          /\ resp'.extra.players =
               getNearbyPlayers(r.gameState.player, storeBiome.players,
                                NEARBY_RADIUS)]_vars

(***************************************************************************)
(* C38: for any sequence of actions and any integer quantity given to      *)
(* buySeeds (zero and negative values included), resources.seeds,          *)
(* resources.water and player.coins remain non-negative, and a buySeeds    *)
(* call never increases the coin balance nor decreases the seed count.     *)
(* Stated in its weakest form: no persisted GameState holds a negative     *)
(* number of seeds, a negative amount of water or a negative balance.      *)
(***************************************************************************)
C38_ResourcesNonNegative ==
  \A u \in Usernames :
    storeGameState[u] # Null =>
      /\ storeGameState[u].resources.seeds >= 0
      /\ storeGameState[u].resources.water >= 0
      /\ storeGameState[u].player.coins >= 0

(***************************************************************************)
(* C39: in src/src/server/index.ts, allocateStartingLand stops after at    *)
(* most PLACEMENT_ATTEMPTS attempts and never creates a starting plot      *)
(* whose centre is within START_SPACING units on both axes of an existing  *)
(* plot of the biome; when no free spot is found it surfaces a failure     *)
(* instead of placing the player on occupied land.                         *)
(***************************************************************************)
C39_NeverPlacedOnOccupiedLand ==
  rLast # Null =>
    /\ rLast.attempts <= PLACEMENT_ATTEMPTS
    /\ ~SpotTaken(rLast.before, rLast.position.x, rLast.position.z)

=============================================================================
